---- MODULE Spec2Model ----
(***************************************************************************)
(* One authority node of the wDingocoin custodian (authorityDaemon.js) and *)
(* its store (database.js), seen together with the parts of the world it   *)
(* reads: the Dingocoin daemon (chain tip, block hashes, confirmed         *)
(* receipts, UTXOs), the burn history of the token contract, and the       *)
(* signed envelopes that travel between the nodes, the operators and the   *)
(* public.                                                                 *)
(*                                                                         *)
(* Amounts are counted in whole coins: dingo.toSatoshi('10') is 10 here,   *)
(* so the three fee constants keep their ratio 10 : 1 : 20 and the 1%      *)
(* integer division of the tax formula is exercised by amounts that are    *)
(* not multiples of 100.                                                   *)
(***************************************************************************)
EXTENDS Integers, Sequences, FiniteSets, TLC

VARIABLES
    usedDepositAddresses,   \* table usedDepositAddresses: set of pubkeys
    mintDepositAddresses,   \* table mintDepositAddresses: set of rows
    withdrawals,            \* table withdrawals: set of rows (with their id)
    blocks,                 \* daemon: getBlockchainInfo().blocks
    hashes,                 \* daemon: getBlockHash(h) for 0..blocks
    received,               \* daemon: listReceivedByAddress(depositConfirmations)
    utxos,                  \* daemon: confirmed unspent outputs, in listing order
    keyCounter,             \* per authority wallet: keys handed out by getNewAddress
    published,              \* envelopes the authorities sent as replies (anyone may hold them)
    requests,               \* envelopes the operators created as requests (held by operators)
    listening,              \* the HTTPS server accepts requests
    signedCount,            \* per withdrawal: batches paying it that /approvePayouts signed
    cache,                  \* burn-history cache on disk: key text -> entry
    stats,                  \* /stats: the statistics object the daemon keeps
    child,                  \* the sqlite3 process spawned by database.reset
    writers,                \* requests at the write lock: queue and progress
    mintHistory,            \* contract: per mint address, mintNonce and mintedAmount
    run,                    \* coordinator: the payout run of executePayoutsHandler
    broadcast,              \* transactions handed to sendrawtransaction, in order
    peers,                  \* the other authorities: withdrawals each has approved
    peerStores,             \* the other authorities: their two registrar tables
    last                    \* the last request served: endpoint, caller, input, outcome

vars == <<usedDepositAddresses, mintDepositAddresses, withdrawals, blocks, hashes,
          received, utxos, keyCounter, published, requests, listening,
          signedCount, cache, stats, child, writers, mintHistory, run, broadcast, peers,
          peerStores, last>>

store == <<usedDepositAddresses, mintDepositAddresses, withdrawals>>
daemon == <<blocks, hashes, received, utxos>>
coordinator == <<run, broadcast, peers>>

(***************************************************************************)
(* Program constants and configuration.                                    *)
(***************************************************************************)
FLAT_FEE == 10
DUST_THRESHOLD == 1
PAYOUT_NETWORK_FEE_PER_TX == 20

\* publicSettings.authorityNodes has NumAuthorities entries, numbered 1..N;
\* the node modelled is authority Self.
NumAuthorities == 2
payoutCoordinator == 1
Self == 2
authorityThreshold == 2
syncDelayThreshold == 2

Authorities == 1..NumAuthorities
walletAddress(i) == <<"wallet", i>>
authorityNodes == [i \in Authorities |-> walletAddress(i)]
\* Dingocoin addresses: plain ones are named, multisig ones are derived from
\* their keys (createMultisig below).
plain(name) == [plain |-> name]
changeAddress == plain("change")
taxPayoutAddresses == <<plain("tax1"), plain("tax2")>>

(***************************************************************************)
(* Bounds of the model.                                                    *)
(***************************************************************************)
MaxTip == 6          \* highest chain tip
MaxKeys == 4         \* keys handed out by all wallets together
MaxDeposits == 2     \* confirmed payments into the wallet
MaxBatch == 2        \* entries per list of a payout batch

(***************************************************************************)
(* Results of operations that may throw.                                   *)
(***************************************************************************)
Ok(v) == [ok |-> TRUE, val |-> v]
Err(m) == [ok |-> FALSE, err |-> m]

(***************************************************************************)
(* Amount arithmetic.                                                      *)
(***************************************************************************)
meetsTax(x) == x >= FLAT_FEE

\* A tax whose percentage part is rounded up.
taxAmountRoundedUp(x) ==
    IF x < FLAT_FEE THEN [ok |-> FALSE, err |-> "Amount fails to meet tax"]
    ELSE [ok |-> TRUE, val |-> FLAT_FEE + (x - FLAT_FEE + 99) \div 100]

taxAmount(x) ==
    IF ~meetsTax(x) THEN Err("Amount fails to meet tax")
    ELSE Ok(FLAT_FEE + (x - FLAT_FEE) \div 100)

amountAfterTax(x) ==
    IF ~meetsTax(x) THEN Err("Amount fails to meet tax")
    ELSE Ok(x - (FLAT_FEE + (x - FLAT_FEE) \div 100))

RECURSIVE SumSeq(_)
SumSeq(s) == IF s = <<>> THEN 0 ELSE Head(s) + SumSeq(Tail(s))

Range(s) == {s[i] : i \in DOMAIN s}

(***************************************************************************)
(* The token contract's burn history: immutable facts, read through        *)
(* smartContract.getBurnHistory(burnAddress, burnIndex).  Four burns of    *)
(* one address: a large one, one of exactly FLAT_FEE, one of FLAT_FEE - 1  *)
(* and one whose destination is no Dingocoin address.  An index past the   *)
(* end makes the contract call fail.                                       *)
(***************************************************************************)
BurnAddresses == {"bA"}
BurnHistory ==
    [a \in BurnAddresses |->
        << [burnDestination |-> plain("dX"), burnAmount |-> 5099],
           [burnDestination |-> plain("dY"), burnAmount |-> FLAT_FEE],
           [burnDestination |-> plain("dX"), burnAmount |-> FLAT_FEE - 1],
           [burnDestination |-> [text |-> "notAnAddress"], burnAmount |-> 5099] >>]
BurnIndexes == 1..(Len(BurnHistory["bA"]) + 1)
BurnKeys == BurnAddresses \X BurnIndexes

getBurnHistory(burnAddress, burnIndex) ==
    IF burnAddress \in BurnAddresses /\ burnIndex \in DOMAIN BurnHistory[burnAddress]
    THEN Ok(BurnHistory[burnAddress][burnIndex])
    ELSE Err("execution reverted")

\* A daemon that calls every destination valid.
verifyAddressAlways(a) == TRUE

\* dingo.verifyAddress: validateaddress(...).isvalid
verifyAddress(a) == DOMAIN a = {"plain"} \/ DOMAIN a = {"multisig", "nrequired"}

(***************************************************************************)
(* Store (database.js).                                                    *)
(***************************************************************************)
\* SELECT ... FROM withdrawals WHERE burnAddress=? AND burnIndex=?
withdrawalRows(burnAddress, burnIndex) ==
    {w \in withdrawals : w.burnAddress = burnAddress /\ w.burnIndex = burnIndex}

\* Ok({}) stands for null, Ok({row}) for the row.
getWithdrawal(burnAddress, burnIndex) ==
    LET result == withdrawalRows(burnAddress, burnIndex) IN
    IF result = {} THEN Ok({})
    ELSE IF Cardinality(result) # 1
         THEN Err("Withdrawal duplicated on (burnAddress, burnIndex)")
         ELSE Ok(result)

nextId(table) == Cardinality(table) + 1

\* INSERT INTO withdrawals (burnAddress, burnIndex): the unique index on
\* (burnAddress, burnIndex) refuses a second row; the approved columns
\* default to "0".
registerWithdrawal(burnAddress, burnIndex) ==
    IF withdrawalRows(burnAddress, burnIndex) # {}
    THEN Err("SQLITE_CONSTRAINT: UNIQUE constraint failed")
    ELSE Ok(withdrawals \cup
            {[id |-> nextId(withdrawals), burnAddress |-> burnAddress,
              burnIndex |-> burnIndex, approvedAmount |-> 0, approvedTax |-> 0]})

(***************************************************************************)
(* Daemon and envelope helpers.                                            *)
(***************************************************************************)
getBlockHash(h) ==
    IF h \in 0..blocks THEN Ok(hashes[h]) ELSE Err("Block height out of range")

\* smartContract.sign / verify: the signature names the key that made it and
\* the text it was made over; recovery over another text yields an address
\* that belongs to nobody.
sign(data, key) == [by |-> key, over |-> data]
recover(data, signature) ==
    IF signature.over = data THEN walletAddress(signature.by) ELSE walletAddress(0)
verify(data, signature, accountAddress) == recover(data, signature) = accountAddress

createSignedMessage(data, key) == [data |-> data, signature |-> sign(data, key)]

\* createTimedAndSignedMessage: x is the body; the height and hash are added
\* to the signed data.
createTimedAndSignedMessage(x, key) ==
    createSignedMessage(
        [body |-> x,
         valDingoHeight |-> blocks - syncDelayThreshold,
         valDingoHash |-> hashes[blocks - syncDelayThreshold]], key)

\* The JSON object {} and the reading of a field that may be absent.
EmptyBody == [f \in {} |-> f]
Undefined == "undefined"
UndefinedValue == [undefined |-> TRUE]
field(x, f) == IF f \in DOMAIN x THEN x[f] ELSE Undefined
fieldValue(x, f) == IF f \in DOMAIN x THEN x[f] ELSE UndefinedValue
isTruthy(x, f) == IF f \in DOMAIN x THEN x[f] = TRUE ELSE FALSE

\* smartContract.validateSignedMessage: "ok" or the error thrown.
validateSignedMessageAlways(message, address) == "ok"

validateSignedMessage(message, address) ==
    IF ~verify(message.data, message.signature, address)
    THEN "Authority verification failed" ELSE "ok"

\* smartContract.validateSignedMessageOne: exactly one of the addresses verifies.
validateSignedMessageOne(message, addresses) ==
    LET verifications ==
            [i \in DOMAIN addresses |->
                IF verify(message.data, message.signature, addresses[i]) THEN 1 ELSE 0] IN
    IF SumSeq(verifications) # 1 THEN "Authority verification failed" ELSE "ok"

\* The two checks that validateTimedAndSignedMessage(One) make before the
\* signature check: the height window and the block hash at that height.
validateTimedNoExpiry(x) ==
    LET h == getBlockHash(x.data.valDingoHeight) IN
    IF ~h.ok THEN h.err
    ELSE IF x.data.valDingoHash # h.val THEN "Verification failed: incorrect chain"
    ELSE "ok"

validateTimed(x) ==
    IF x.data.valDingoHeight < blocks - 2 * syncDelayThreshold THEN "Message expired"
    ELSE LET h == getBlockHash(x.data.valDingoHeight) IN
         IF ~h.ok THEN h.err
         ELSE IF x.data.valDingoHash # h.val THEN "Verification failed: incorrect chain"
         ELSE "ok"

\* What a verifier can tell about an envelope: who signed these very data,
\* and the height and hash the data carry.
envelopeFacts(x) ==
    [signer |-> recover(x.data, x.signature),
     valDingoHeight |-> x.data.valDingoHeight,
     valDingoHash |-> x.data.valDingoHash]

\* A check that takes the signature of any authority, whatever the address
\* asked for.
validateTimedAndSignedMessageAnyNode(x, address) ==
    LET t == validateTimed(x) IN
    IF t # "ok" THEN t
    ELSE IF recover(x.data, x.signature) \in Range(authorityNodes) THEN "ok"
    ELSE "Authority verification failed"

validateTimedAndSignedMessage(x, address) ==
    LET t == validateTimed(x) IN
    IF t # "ok" THEN t ELSE validateSignedMessage(x, address)

validateTimedAndSignedMessageOne(x, addresses) ==
    LET t == validateTimed(x) IN
    IF t # "ok" THEN t ELSE validateSignedMessageOne(x, addresses)

(***************************************************************************)
(* /submitWithdrawal                                                       *)
(***************************************************************************)
\* A variant without the duplicate check and without the unique index.
submitWithdrawalUnchecked(burnAddress, burnIndex) ==
    LET b == getBurnHistory(burnAddress, burnIndex) IN
    IF ~b.ok THEN b
    ELSE IF ~verifyAddress(b.val.burnDestination)
         THEN Err("Withdrawal address is not a valid Dingo address")
    ELSE IF b.val.burnAmount < FLAT_FEE THEN Err("Amount too little")
    ELSE Ok(withdrawals \cup
            {[id |-> nextId(withdrawals), burnAddress |-> burnAddress,
              burnIndex |-> burnIndex, approvedAmount |-> 0, approvedTax |-> 0]})

\* The critical section of /submitWithdrawal: the new table or the error.
submitWithdrawalResult(burnAddress, burnIndex) ==
    LET w == getWithdrawal(burnAddress, burnIndex) IN
    IF ~w.ok THEN w
    ELSE IF w.val # {} THEN Err("Withdrawal already submitted")
    ELSE LET b == getBurnHistory(burnAddress, burnIndex) IN
         IF ~b.ok THEN b
         ELSE IF ~verifyAddress(b.val.burnDestination)
              THEN Err("Withdrawal address is not a valid Dingo address")
         ELSE IF b.val.burnAmount < FLAT_FEE THEN Err("Amount too little")
         ELSE registerWithdrawal(burnAddress, burnIndex)

SubmitWithdrawal(burnAddress, burnIndex) ==
    /\ listening
    /\ LET r == submitWithdrawalResult(burnAddress, burnIndex)
           reply == createTimedAndSignedMessage(EmptyBody, Self) IN
       /\ withdrawals' = IF r.ok THEN r.val ELSE withdrawals
       /\ published' = IF r.ok THEN published \cup {reply} ELSE published
       /\ last' = [op |-> "submitWithdrawal", caller |-> "public",
                   req |-> <<burnAddress, burnIndex>>,
                   res |-> IF r.ok THEN "ok" ELSE r.err]
    /\ UNCHANGED <<peerStores, writers, cache, stats, child, mintHistory, coordinator, usedDepositAddresses, mintDepositAddresses, daemon, keyCounter,
                   requests, listening, signedCount>>

(***************************************************************************)
(* Mint-address registrar.                                                 *)
(***************************************************************************)
MintAddresses == {"m1", "m2"}
isAddress(a) == a \in MintAddresses

\* dingo.getNewAddress on authority i: the pubkey of the next wallet key.
pubkey(i, n) == [wallet |-> i, n |-> n]
isPubkey(x) == DOMAIN x = {"wallet", "n"}

\* dingo.createMultisig(n, keys): the address and redeem script are functions
\* of the threshold and the ordered keys; the daemon refuses what is no pubkey.
createMultisig(n, keys) ==
    IF \E i \in DOMAIN keys : ~isPubkey(keys[i]) THEN Err("Invalid public key")
    ELSE Ok([address |-> [multisig |-> keys, nrequired |-> n],
             redeemScript |-> [redeem |-> keys, nrequired |-> n]])

\* SELECT COUNT(*) FROM usedDepositAddresses WHERE address IN (...) > 0
hasUsedDepositAddressesNever(used, depositAddresses) == FALSE

hasUsedDepositAddresses(used, depositAddresses) ==
    \E i \in DOMAIN depositAddresses : depositAddresses[i] \in used

\* INSERT INTO usedDepositAddresses, one row after the other; the unique
\* index stops the loop at the first address already present, and the rows
\* inserted before it stay.
RECURSIVE registerUsedDepositAddresses(_, _)
registerUsedDepositAddresses(used, depositAddresses) ==
    IF depositAddresses = <<>> THEN [ok |-> TRUE, used |-> used]
    ELSE IF Head(depositAddresses) \in used
         THEN [ok |-> FALSE, used |-> used,
               err |-> "SQLITE_CONSTRAINT: UNIQUE constraint failed"]
         ELSE registerUsedDepositAddresses(used \cup {Head(depositAddresses)},
                                           Tail(depositAddresses))

\* INSERT INTO mintDepositAddresses: mintAddress and depositAddress are both
\* UNIQUE columns; approvedTax defaults to "0".
registerMintDepositAddressUnchecked(table, mintAddress, depositAddress, redeemScript) ==
    Ok(table \cup {[mintAddress |-> mintAddress, depositAddress |-> depositAddress,
                    redeemScript |-> redeemScript, approvedTax |-> 0]})

registerMintDepositAddress(table, mintAddress, depositAddress, redeemScript) ==
    IF \E r \in table : r.mintAddress = mintAddress \/ r.depositAddress = depositAddress
    THEN Err("SQLITE_CONSTRAINT: UNIQUE constraint failed")
    ELSE Ok(table \cup {[mintAddress |-> mintAddress, depositAddress |-> depositAddress,
                         redeemScript |-> redeemScript, approvedTax |-> 0]})

\* /generateDepositAddress on authority i (every authority runs this code).
GenerateDepositAddress(i, mintAddress) ==
    /\ listening
    /\ SumSeq(keyCounter) < MaxKeys
    /\ IF ~isAddress(mintAddress)
       THEN /\ last' = [op |-> "generateDepositAddress", caller |-> "public",
                        req |-> <<i, mintAddress>>, res |-> "mintAddress missing or invalid"]
            /\ UNCHANGED <<keyCounter, published>>
       ELSE /\ keyCounter' = [keyCounter EXCEPT ![i] = @ + 1]
            /\ published' = published \cup
                   {createTimedAndSignedMessage(
                        [mintAddress |-> mintAddress,
                         depositAddress |-> pubkey(i, keyCounter[i] + 1)], i)}
            /\ last' = [op |-> "generateDepositAddress", caller |-> "public",
                        req |-> <<i, mintAddress>>, res |-> "ok"]
    /\ UNCHANGED <<peerStores, writers, cache, stats, child, mintHistory, coordinator, store, daemon, requests, listening, signedCount>>

\* The first error among the positional envelope checks, or "ok".
RECURSIVE firstError(_)
firstError(rs) ==
    IF rs = <<>> THEN "ok"
    ELSE IF Head(rs) # "ok" THEN Head(rs) ELSE firstError(Tail(rs))

\* /registerMintDepositAddress: the outcome and the two tables afterwards.
registerMintDepositAddressAt(node, usedOfNode, tableOfNode, responses) ==
    LET same == [used |-> usedOfNode, table |-> tableOfNode] IN
    IF Len(responses) # NumAuthorities
    THEN [res |-> "Incorrect authority count"] @@ same
    ELSE
    LET checks == [i \in DOMAIN responses |->
                     validateTimedAndSignedMessage(responses[i], authorityNodes[i])]
        bodies == [i \in DOMAIN responses |-> responses[i].data.body]
        mintAddress == field(bodies[1], "mintAddress")
    IN
    IF firstError(checks) # "ok" THEN [res |-> firstError(checks)] @@ same
    ELSE IF \E i \in DOMAIN bodies : field(bodies[i], "mintAddress") # mintAddress
    THEN [res |-> "Consensus failure on mint address"] @@ same
    ELSE IF ~isAddress(mintAddress)
    THEN [res |-> "mintAddress missing or invalid"] @@ same
    ELSE
    \* inside the write lock
    LET depositAddresses == [i \in DOMAIN bodies |-> fieldValue(bodies[i], "depositAddress")] IN
    IF hasUsedDepositAddresses(usedOfNode, depositAddresses)
    THEN [res |-> "At least one deposit address has been previously registered"] @@ same
    ELSE
    LET u == registerUsedDepositAddresses(usedOfNode, depositAddresses) IN
    IF ~u.ok THEN [res |-> u.err, used |-> u.used, table |-> tableOfNode]
    ELSE
    LET m == createMultisig(authorityThreshold, depositAddresses) IN
    IF ~m.ok THEN [res |-> m.err, used |-> u.used, table |-> tableOfNode]
    ELSE
    LET t == registerMintDepositAddress(tableOfNode, mintAddress,
                                        m.val.address, m.val.redeemScript) IN
    IF ~t.ok THEN [res |-> t.err, used |-> u.used, table |-> tableOfNode]
    ELSE [res |-> "ok", used |-> u.used, table |-> t.val,
          reply |-> createTimedAndSignedMessage([depositAddress |-> m.val.address], node)]

\* /registerMintDepositAddress on this node.
registerMintDepositAddressOutcome(responses) ==
    registerMintDepositAddressAt(Self, usedDepositAddresses, mintDepositAddresses, responses)

\* The depositAddress fields of the replies a request carries.
requestedPubkeys(responses) ==
    {fieldValue(responses[i].data.body, "depositAddress") : i \in DOMAIN responses}

RegisterMintDepositAddress(responses) ==
    /\ listening
    /\ LET o == registerMintDepositAddressOutcome(responses) IN
       /\ usedDepositAddresses' = o.used
       /\ mintDepositAddresses' = o.table
       /\ published' = IF o.res = "ok" THEN published \cup {o.reply} ELSE published
       /\ last' = [op |-> "registerMintDepositAddress", caller |-> "public",
                   req |-> [pubkeys |-> requestedPubkeys(responses),
                            mintAddress |-> field(responses[1].data.body, "mintAddress"),
                            entries |-> [i \in DOMAIN responses |->
                                            envelopeFacts(responses[i])]],
                   res |-> o.res]
    /\ UNCHANGED <<peerStores, writers, cache, stats, child, mintHistory, coordinator, withdrawals, daemon, keyCounter, requests, listening, signedCount>>

(***************************************************************************)
(* The Dingocoin chain as the daemon reports it.                           *)
(***************************************************************************)
boundDepositAddresses == {r.depositAddress : r \in mintDepositAddresses}

receivedAt(a) == IF a \in DOMAIN received THEN received[a] ELSE 0

\* A payment to a wallet address reaches depositConfirmations: one more
\* unspent output, and the confirmed receipts of the address grow.
Deposit(address, amount) ==
    /\ Len(utxos) < MaxDeposits
    /\ utxos' = Append(utxos, [txid |-> Len(utxos) + 1, address |-> address,
                               amount |-> amount])
    /\ received' = [a \in DOMAIN received \cup {address} |-> 
                       IF a = address THEN receivedAt(a) + amount ELSE received[a]]
    /\ last' = [op |-> "deposit", caller |-> "chain", req |-> <<address, amount>>,
                res |-> "ok"]
    /\ UNCHANGED <<peerStores, writers, cache, stats, child, mintHistory, coordinator, store, blocks, hashes, keyCounter, published, requests, listening,
                   signedCount>>

(***************************************************************************)
(* Payout engine.                                                          *)
(***************************************************************************)
\* A sum that takes the first entry only.
sumAmountsOfFirst(s) == IF s = <<>> THEN 0 ELSE s[1].amount

\* Sum of the amount fields of a list of payouts or outputs.
sumAmounts(s) == SumSeq([i \in DOMAIN s |-> s[i].amount])

\* database.getMintDepositAddresses(filter): the rows whose depositAddress is
\* in the filter.
getMintDepositAddresses(filter) == {r \in mintDepositAddresses : r.depositAddress \in filter}

\* computeUnspent: the change outputs, then the outputs at the registered
\* deposit addresses that have confirmed receipts.
computeUnspent ==
    LET nonEmpty == {r.depositAddress : r \in getMintDepositAddresses(DOMAIN received)} IN
    SelectSeq(utxos, LAMBDA u : u.address = changeAddress)
        \o SelectSeq(utxos, LAMBDA u : u.address \in nonEmpty)

\* A check of the unspent list that passes whatever is listed.
validateUnspentAlways(unspent) == "ok"

validateUnspent(unspent) ==
    IF \E i \in DOMAIN unspent : unspent[i] \notin Range(computeUnspent)
    THEN "Non-existent UTXO" ELSE "ok"

\* A network fee that charges for the deposit tax payouts only.
networkFeeOfDepositsOnly(depositTaxPayouts, withdrawalPayouts) ==
    Len(depositTaxPayouts) * PAYOUT_NETWORK_FEE_PER_TX

\* A total tax that leaves out the tax of the withdrawals.
totalTaxOfDepositsOnly(depositTaxPayouts, withdrawalTaxPayouts) ==
    sumAmounts(depositTaxPayouts)

totalTaxOf(depositTaxPayouts, withdrawalTaxPayouts) ==
    sumAmounts(depositTaxPayouts) + sumAmounts(withdrawalTaxPayouts)

networkFeeOf(depositTaxPayouts, withdrawalPayouts) ==
    (Len(depositTaxPayouts) + Len(withdrawalPayouts)) * PAYOUT_NETWORK_FEE_PER_TX

\* The checks validatePayouts makes on one depositTaxPayout.
validateDepositTaxPayout(p) ==
    IF p.depositAddress \notin DOMAIN received THEN "Dingo address has zero balance"
    ELSE IF getMintDepositAddresses({p.depositAddress}) = {}
    THEN "Dingo address not registered"
    ELSE
    LET depositedAmount == received[p.depositAddress]
        row == CHOOSE r \in getMintDepositAddresses({p.depositAddress}) : TRUE IN
    IF ~meetsTax(depositedAmount) THEN "Deposited amount insufficient"
    ELSE IF p.amount + row.approvedTax > taxAmount(depositedAmount).val
    THEN "Requested tax amount more than remaining approvable tax"
    ELSE "ok"

\* The checks validatePayouts makes on withdrawalPayouts[i] and
\* withdrawalTaxPayouts[i], without the check that the withdrawal is still
\* unapproved.
validateWithdrawalPayoutAnyState(wp, wtp) ==
    IF wp.burnAddress # wtp.burnAddress \/ wp.burnIndex # wtp.burnIndex
    THEN "Mismatch in withdrawal and withdrawal tax payout details"
    ELSE
    LET withdrawal == getWithdrawal(wp.burnAddress, wp.burnIndex) IN
    IF ~withdrawal.ok THEN withdrawal.err
    ELSE IF withdrawal.val = {} THEN "Withdrawal not registered"
    ELSE
    LET b == getBurnHistory(wp.burnAddress, wp.burnIndex) IN
    IF ~b.ok THEN b.err
    ELSE IF wp.burnDestination # b.val.burnDestination
    THEN "Withdrawal destination incorrect"
    ELSE IF wtp.burnDestination # b.val.burnDestination
    THEN "Withdrawal tax destination incorrect"
    ELSE IF ~amountAfterTax(b.val.burnAmount).ok THEN amountAfterTax(b.val.burnAmount).err
    ELSE IF wp.amount # amountAfterTax(b.val.burnAmount).val
    THEN "Withdrawal amount incorrect"
    ELSE IF wtp.amount # taxAmount(b.val.burnAmount).val
    THEN "Withdrawal tax amount incorrect"
    ELSE "ok"

validateWithdrawalPayout(wp, wtp) ==
    IF wp.burnAddress # wtp.burnAddress \/ wp.burnIndex # wtp.burnIndex
    THEN "Mismatch in withdrawal and withdrawal tax payout details"
    ELSE
    LET withdrawal == getWithdrawal(wp.burnAddress, wp.burnIndex) IN
    IF ~withdrawal.ok THEN withdrawal.err
    ELSE IF withdrawal.val = {} THEN "Withdrawal not registered"
    ELSE
    LET w == CHOOSE x \in withdrawal.val : TRUE IN
    IF w.approvedAmount # 0 \/ w.approvedTax # 0 THEN "Withdrawal already approved"
    ELSE
    LET b == getBurnHistory(wp.burnAddress, wp.burnIndex) IN
    IF ~b.ok THEN b.err
    ELSE IF wp.burnDestination # b.val.burnDestination
    THEN "Withdrawal destination incorrect"
    ELSE IF wtp.burnDestination # b.val.burnDestination
    THEN "Withdrawal tax destination incorrect"
    ELSE IF ~amountAfterTax(b.val.burnAmount).ok THEN amountAfterTax(b.val.burnAmount).err
    ELSE IF wp.amount # amountAfterTax(b.val.burnAmount).val
    THEN "Withdrawal amount incorrect"
    ELSE IF wtp.amount # taxAmount(b.val.burnAmount).val
    THEN "Withdrawal tax amount incorrect"
    ELSE "ok"

validatePayouts(depositTaxPayouts, withdrawalPayouts, withdrawalTaxPayouts) ==
    IF totalTaxOf(depositTaxPayouts, withdrawalTaxPayouts)
          < networkFeeOf(depositTaxPayouts, withdrawalPayouts)
    THEN "Insufficient tax to cover network fees"
    ELSE
    LET d == firstError([i \in DOMAIN depositTaxPayouts |->
                            validateDepositTaxPayout(depositTaxPayouts[i])]) IN
    IF d # "ok" THEN d
    ELSE IF Len(withdrawalPayouts) # Len(withdrawalTaxPayouts)
    THEN "Withdrawal and withdrawal tax payouts mismatch in count"
    ELSE firstError([i \in DOMAIN withdrawalPayouts |->
                        validateWithdrawalPayout(withdrawalPayouts[i],
                                                 withdrawalTaxPayouts[i])])

\* computeVouts: address -> amount, or the error thrown.
\* A dust filter that keeps every output.
aboveDustAlways(x) == TRUE

\* vouts[address] >= DUST_THRESHOLD
aboveDust(x) == x >= DUST_THRESHOLD

\* computeVouts up to the conversion at its end: the amount accumulated for
\* every address, with the per-payee tax and the change.
voutsBeforeDust(depositTaxPayouts, withdrawalPayouts, withdrawalTaxPayouts, unspent) ==
    LET totalTax == totalTaxOf(depositTaxPayouts, withdrawalTaxPayouts)
        networkFee == networkFeeOf(depositTaxPayouts, withdrawalPayouts) IN
    IF totalTax < networkFee THEN Err("Insufficient tax for network fee")
    ELSE
    LET taxPayoutPerPayee == (totalTax - networkFee) \div Len(taxPayoutAddresses)
        destinations == {withdrawalPayouts[i].burnDestination : i \in DOMAIN withdrawalPayouts}
        payees == Range(taxPayoutAddresses)
        withdrawn(a) ==
            sumAmounts(SelectSeq(withdrawalPayouts, LAMBDA p : p.burnDestination = a))
        taxed(a) ==
            taxPayoutPerPayee * Cardinality({i \in DOMAIN taxPayoutAddresses :
                                                taxPayoutAddresses[i] = a})
        totalPayout == sumAmounts(withdrawalPayouts)
                          + taxPayoutPerPayee * Len(taxPayoutAddresses)
        totalUnspent == sumAmounts(unspent)
        change == totalUnspent - totalPayout - networkFee
        addresses == destinations \cup payees \cup
                        (IF change > 0 THEN {changeAddress} ELSE {})
        vouts == [a \in addresses |->
                    withdrawn(a) + taxed(a)
                      + (IF a = changeAddress /\ change > 0 THEN change ELSE 0)]
    IN
    IF change < 0 THEN Err("Insufficient funds")
    ELSE Ok(vouts)

computeVouts(depositTaxPayouts, withdrawalPayouts, withdrawalTaxPayouts, unspent) ==
    LET v == voutsBeforeDust(depositTaxPayouts, withdrawalPayouts, withdrawalTaxPayouts,
                             unspent) IN
    IF ~v.ok THEN v
    ELSE Ok([a \in {x \in DOMAIN v.val : aboveDust(v.val[x])} |-> v.val[a]])

\* dingo.createRawTransaction / signRawTransaction: the inputs, the outputs
\* and who has signed so far.
NoApprovalChain == [null |-> TRUE]
createRawTransaction(unspent, vouts) ==
    [vin |-> [i \in DOMAIN unspent |-> unspent[i].txid], vout |-> vouts, signers |-> {}]
signRawTransaction(tx, i) == [tx EXCEPT !.signers = @ \cup {i}]

\* dingo.verifyRawTransaction(unspent, vouts, hex): the transaction spends
\* exactly the given outputs and pays exactly the given vouts.
verifyRawTransaction(unspent, vouts, tx) ==
    IF {tx.vin[i] : i \in DOMAIN tx.vin} # {unspent[i].txid : i \in DOMAIN unspent}
       \/ Len(tx.vin) # Len(unspent)
    THEN "Inputs mismatch"
    ELSE IF tx.vout # vouts THEN "Outputs mismatch"
    ELSE "ok"

\* applyPayouts, deposit part: the rows are read once into a dictionary and
\* every payout adds its amount to the dictionary entry of its address.
RECURSIVE accumulateApprovedTax(_, _)
accumulateApprovedTax(depositAddresses, depositTaxPayouts) ==
    IF depositTaxPayouts = <<>> THEN depositAddresses
    ELSE LET p == Head(depositTaxPayouts) IN
         accumulateApprovedTax(
             [depositAddresses EXCEPT ![p.depositAddress] = @ + p.amount],
             Tail(depositTaxPayouts))

applyDepositTaxPayouts(depositTaxPayouts) ==
    LET rows == getMintDepositAddresses(
                    {depositTaxPayouts[i].depositAddress : i \in DOMAIN depositTaxPayouts})
        before == [a \in {r.depositAddress : r \in rows} |->
                      (CHOOSE r \in rows : r.depositAddress = a).approvedTax]
        after == accumulateApprovedTax(before, depositTaxPayouts) IN
    {IF r.depositAddress \in DOMAIN after
     THEN [r EXCEPT !.approvedTax = after[r.depositAddress]] ELSE r :
        r \in mintDepositAddresses}

\* A variant that keeps a running total per withdrawal in memory.
applyWithdrawalPayoutsAccumulating(withdrawalPayouts, withdrawalTaxPayouts) ==
    LET hits(w) == {i \in DOMAIN withdrawalPayouts :
                       /\ withdrawalPayouts[i].burnAddress = w.burnAddress
                       /\ withdrawalPayouts[i].burnIndex = w.burnIndex} IN
    {IF hits(w) = {} THEN w
     ELSE [w EXCEPT
             !.approvedAmount = @ + sumAmounts(SelectSeq(withdrawalPayouts,
                 LAMBDA p : p.burnAddress = w.burnAddress /\ p.burnIndex = w.burnIndex)),
             !.approvedTax = @ + sumAmounts(SelectSeq(withdrawalTaxPayouts,
                 LAMBDA p : p.burnAddress = w.burnAddress /\ p.burnIndex = w.burnIndex))] :
        w \in withdrawals}

\* applyPayouts, withdrawal part: entry i reads its row from the table (not
\* yet updated), adds the two amounts of entry i, and the rows are written
\* in order after the loop, so the last entry of a withdrawal decides.
applyWithdrawalPayouts(withdrawalPayouts, withdrawalTaxPayouts) ==
    LET hits(w) == {i \in DOMAIN withdrawalPayouts :
                       /\ withdrawalPayouts[i].burnAddress = w.burnAddress
                       /\ withdrawalPayouts[i].burnIndex = w.burnIndex}
        lastHit(w) == CHOOSE i \in hits(w) : \A j \in hits(w) : j <= i IN
    {IF hits(w) = {} THEN w
     ELSE [w EXCEPT !.approvedAmount = @ + withdrawalPayouts[lastHit(w)].amount,
                    !.approvedTax = @ + withdrawalTaxPayouts[lastHit(w)].amount] :
        w \in withdrawals}

PayoutFields == {"depositTaxPayouts", "withdrawalPayouts", "withdrawalTaxPayouts",
                 "unspent", "approvalChain"}

\* A handler that signs whatever it is sent and answers with the failure of
\* its first check.
approvePayoutsOutcomeSignFirst(x, test) ==
    [res |-> "Non-existent UTXO", table |-> mintDepositAddresses, rows |-> withdrawals,
     signed |-> TRUE]

\* The handler built by makeApprovePayoutsHandler(test), all of it inside the
\* write lock: the outcome, the two tables afterwards and whether a signed
\* transaction leaves the node.
approvePayoutsOutcome(x, test) ==
    LET same == [table |-> mintDepositAddresses, rows |-> withdrawals, signed |-> FALSE]
        v == validateTimedAndSignedMessage(x, authorityNodes[payoutCoordinator]) IN
    IF v # "ok" THEN [res |-> v] @@ same
    ELSE IF ~(PayoutFields \subseteq DOMAIN x.data.body)
    THEN [res |-> "TypeError"] @@ same
    ELSE
    LET b == x.data.body
        u == validateUnspent(b.unspent) IN
    IF u # "ok" THEN [res |-> u] @@ same
    ELSE
    LET p == validatePayouts(b.depositTaxPayouts, b.withdrawalPayouts,
                             b.withdrawalTaxPayouts) IN
    IF p # "ok" THEN [res |-> p] @@ same
    ELSE
    LET vouts == computeVouts(b.depositTaxPayouts, b.withdrawalPayouts,
                              b.withdrawalTaxPayouts, b.unspent) IN
    IF ~vouts.ok THEN [res |-> vouts.err] @@ same
    ELSE
    LET approvalChain == IF b.approvalChain = NoApprovalChain
                         THEN createRawTransaction(b.unspent, vouts.val)
                         ELSE b.approvalChain
        t == verifyRawTransaction(b.unspent, vouts.val, approvalChain) IN
    IF t # "ok" THEN [res |-> t] @@ same
    ELSE IF test
    THEN [res |-> "ok", reply |-> approvalChain] @@ same
    ELSE [res |-> "ok", signed |-> TRUE,
          reply |-> signRawTransaction(approvalChain, Self),
          table |-> applyDepositTaxPayouts(b.depositTaxPayouts),
          rows |-> applyWithdrawalPayouts(b.withdrawalPayouts, b.withdrawalTaxPayouts)]

paidWithdrawals(body) ==
    IF "withdrawalPayouts" \in DOMAIN body
    THEN {<<body.withdrawalPayouts[i].burnAddress, body.withdrawalPayouts[i].burnIndex>> :
             i \in DOMAIN body.withdrawalPayouts}
    ELSE {}

\* The outputs a request asks to spend.
requestedInputs(body) ==
    IF "unspent" \in DOMAIN body THEN Range(body.unspent) ELSE {}

\* What serving one request does to the node.
ApprovePayoutsServed(x, test) ==
    /\ listening
    /\ LET o == approvePayoutsOutcome(x, test) IN
       /\ mintDepositAddresses' = o.table
       /\ withdrawals' = o.rows
       /\ signedCount' = [k \in BurnKeys |->
                             IF o.signed /\ k \in paidWithdrawals(x.data.body)
                             THEN signedCount[k] + 1 ELSE signedCount[k]]
       /\ last' = [op |-> IF test THEN "approvePayoutsTest" ELSE "approvePayouts",
                   caller |-> IF x.signature.by = payoutCoordinator
                              THEN "coordinator" ELSE "operator",
                   req |-> [paid |-> paidWithdrawals(x.data.body),
                            inputs |-> requestedInputs(x.data.body),
                            env |-> envelopeFacts(x)],
                   res |-> o.res]

ApprovePayoutsHandler(x, test) ==
    /\ ApprovePayoutsServed(x, test)
    /\ UNCHANGED <<peerStores, writers, cache, stats, child, mintHistory, coordinator, usedDepositAddresses, daemon, keyCounter,
                   published, requests, listening>>

\* /approvePayouts and /approvePayoutsTest
ApprovePayouts(x) == ApprovePayoutsHandler(x, FALSE)
ApprovePayoutsTest(x) == ApprovePayoutsHandler(x, TRUE)

\* The daemon calls the handler makes once its checks have passed, in order;
\* each is an RPC to the wallet daemon and rejects when the daemon does.
RpcSteps == {"signRawTransaction", "createTimedAndSignedMessage"}

\* /approvePayouts for a batch that passes every check, with the daemon's RPC
\* failing at one of these calls: the handler throws there and the caller is
\* answered with the error.  applyPayouts lies between the two calls.
ApprovePayoutsRpcFailure(x, step) ==
    /\ listening
    /\ LET o == approvePayoutsOutcome(x, FALSE)
           applied == step = "createTimedAndSignedMessage" IN
       /\ o.res = "ok"
       /\ mintDepositAddresses' = IF applied THEN o.table ELSE mintDepositAddresses
       /\ withdrawals' = IF applied THEN o.rows ELSE withdrawals
       /\ signedCount' = [k \in BurnKeys |->
                             IF applied /\ k \in paidWithdrawals(x.data.body)
                             THEN signedCount[k] + 1 ELSE signedCount[k]]
       /\ last' = [op |-> "approvePayouts",
                   caller |-> IF x.signature.by = payoutCoordinator
                              THEN "coordinator" ELSE "operator",
                   req |-> [paid |-> paidWithdrawals(x.data.body),
                            inputs |-> requestedInputs(x.data.body),
                            env |-> envelopeFacts(x)],
                   res |-> "RPC failure in " \o step]
    /\ UNCHANGED <<peerStores, writers, cache, stats, child, mintHistory, coordinator, usedDepositAddresses, daemon, keyCounter, published, requests,
                   listening>>

(***************************************************************************)
(* Payout requests a coordinator may send.                                 *)
(***************************************************************************)
PayKeys ==
    {k \in BurnKeys :
        /\ getBurnHistory(k[1], k[2]).ok
        /\ verifyAddress(getBurnHistory(k[1], k[2]).val.burnDestination)
        /\ meetsTax(getBurnHistory(k[1], k[2]).val.burnAmount)}

withdrawalPayoutFor(k) ==
    LET b == getBurnHistory(k[1], k[2]).val IN
    [burnAddress |-> k[1], burnIndex |-> k[2], burnDestination |-> b.burnDestination,
     amount |-> amountAfterTax(b.burnAmount).val]

withdrawalTaxPayoutFor(k) ==
    LET b == getBurnHistory(k[1], k[2]).val IN
    [burnAddress |-> k[1], burnIndex |-> k[2], burnDestination |-> b.burnDestination,
     amount |-> taxAmount(b.burnAmount).val]

ListsOver(S) == UNION {[1..n -> S] : n \in 0..MaxBatch}

approvedTaxOf(a) == (CHOOSE r \in mintDepositAddresses : r.depositAddress = a).approvedTax

\* Amounts a batch may ask for at a bound deposit address: what is left to
\* approve, the whole tax of the receipts, and a negative amount.
DepositTaxAmounts(a) ==
    IF meetsTax(receivedAt(a))
    THEN {taxAmount(receivedAt(a)).val - approvedTaxOf(a), taxAmount(receivedAt(a)).val,
          0 - FLAT_FEE}
    ELSE {FLAT_FEE}

DepositTaxEntries ==
    {[depositAddress |-> a, amount |-> x] :
        <<a, x>> \in UNION {{a} \X DepositTaxAmounts(a) : a \in boundDepositAddresses}}

payoutBody(depositTaxPayouts, wp, wtp, unspent, approvalChain) ==
    [depositTaxPayouts |-> depositTaxPayouts, withdrawalPayouts |-> wp,
     withdrawalTaxPayouts |-> wtp, unspent |-> unspent, approvalChain |-> approvalChain]

\* Batches whose withdrawal entries are what computePendingPayouts would emit
\* for the keys listed, in any order and with repetitions.
WellFormedBodies ==
    {payoutBody(d, [i \in DOMAIN ks |-> withdrawalPayoutFor(ks[i])],
                [i \in DOMAIN ks |-> withdrawalTaxPayoutFor(ks[i])],
                computeUnspent, NoApprovalChain) :
        <<d, ks>> \in ListsOver(DepositTaxEntries) \X ListsOver(PayKeys)}

\* Batches of one withdrawal with one thing wrong.
MalformedBodies ==
    UNION {
      LET wp == withdrawalPayoutFor(k)
          wtp == withdrawalTaxPayoutFor(k)
          other == CHOOSE j \in PayKeys : j # k
          bogus == [txid |-> 0, address |-> changeAddress, amount |-> 5099] IN
      { payoutBody(<<>>, <<[wp EXCEPT !.amount = @ + 1]>>, <<wtp>>, computeUnspent, NoApprovalChain),
        payoutBody(<<>>, <<wp>>, <<[wtp EXCEPT !.amount = @ + 1]>>, computeUnspent, NoApprovalChain),
        payoutBody(<<>>, <<[wp EXCEPT !.burnDestination = changeAddress]>>, <<wtp>>,
                   computeUnspent, NoApprovalChain),
        payoutBody(<<>>, <<wp>>, <<[wtp EXCEPT !.burnDestination = changeAddress]>>,
                   computeUnspent, NoApprovalChain),
        payoutBody(<<>>, <<wp>>, <<withdrawalTaxPayoutFor(other)>>, computeUnspent, NoApprovalChain),
        payoutBody(<<>>, <<wp>>, <<>>, computeUnspent, NoApprovalChain),
        payoutBody(<<>>, <<wp>>, <<wtp>>, computeUnspent \o <<bogus>>, NoApprovalChain),
        payoutBody(<<>>, <<wp>>, <<wtp>>, computeUnspent,
                   createRawTransaction(computeUnspent, [a \in {changeAddress} |-> 5099])),
        payoutBody(<<[depositAddress |-> changeAddress, amount |-> FLAT_FEE]>>,
                   <<wp>>, <<wtp>>, computeUnspent, NoApprovalChain) }
      : k \in PayKeys }

\* Envelopes made for these bodies at the present tip: by the coordinator,
\* and one by an authority that is not the coordinator.
PayoutEnvelopes ==
    {createTimedAndSignedMessage(b, payoutCoordinator) :
        b \in WellFormedBodies \cup MalformedBodies}
    \cup {createTimedAndSignedMessage(b, Self) :
        b \in {w \in WellFormedBodies : w.depositTaxPayouts = <<>>
                                         /\ Len(w.withdrawalPayouts) = 1}}

(***************************************************************************)
(* The chain moves; operators make requests; authority-only endpoints.     *)
(***************************************************************************)
\* The daemon learns of one more block.
AdvanceTip ==
    /\ blocks < MaxTip
    /\ blocks' = blocks + 1
    /\ last' = [op |-> "advanceTip", caller |-> "chain", req |-> <<>>, res |-> "ok"]
    /\ UNCHANGED <<peerStores, writers, cache, stats, child, mintHistory, coordinator, store, hashes, received, utxos, keyCounter, published, requests,
                   listening, signedCount>>

\* The blocks from height h upwards are replaced by those of another fork.
Reorg(h) ==
    /\ h \in 1..blocks
    /\ hashes[h] = 1
    /\ hashes' = [k \in DOMAIN hashes |-> IF k >= h THEN 2 ELSE hashes[k]]
    /\ last' = [op |-> "reorg", caller |-> "chain", req |-> <<h>>, res |-> "ok"]
    /\ UNCHANGED <<peerStores, writers, cache, stats, child, mintHistory, coordinator, store, blocks, received, utxos, keyCounter, published, requests,
                   listening, signedCount>>

\* /ping: a signed envelope for whoever asks.
Ping ==
    /\ listening
    /\ published' = published \cup
           {createTimedAndSignedMessage([timestamp |-> "now"], Self)}
    /\ last' = [op |-> "ping", caller |-> "public", req |-> <<>>, res |-> "ok"]
    /\ UNCHANGED <<peerStores, writers, cache, stats, child, mintHistory, coordinator, store, daemon, keyCounter, requests, listening, signedCount>>

\* The operator of authority i runs the command line client, which wraps the
\* request body in an envelope signed with the authority's key.
OperatorBodies == {EmptyBody, [processDeposits |-> TRUE, processWithdrawals |-> TRUE]}

OperatorRequest(i, body) ==
    /\ requests' = requests \cup {createTimedAndSignedMessage(body, i)}
    /\ last' = [op |-> "operatorRequest", caller |-> "operator", req |-> <<>>, res |-> "ok"]
    /\ UNCHANGED <<peerStores, writers, cache, stats, child, mintHistory, coordinator, store, daemon, keyCounter, published, listening, signedCount>>

\* The check every authority-only endpoint makes on the posted envelope.
authorityOnly(x) == validateTimedAndSignedMessageOne(x, authorityNodes)

\* /log
Log(caller, x) ==
    /\ listening
    /\ last' = [op |-> "log", caller |-> caller, req |-> [env |-> envelopeFacts(x)],
                res |-> authorityOnly(x)]
    /\ UNCHANGED <<peerStores, writers, cache, stats, child, mintHistory, coordinator, store, daemon, keyCounter, published, requests, listening,
                   signedCount>>

\* /dumpDatabase: the handler is not wrapped in asyncHandler, so a failed
\* check is a promise rejection nobody handles: the request gets no reply and
\* the runtime, by its version and flags, goes on or ends the process.
DumpDatabase(caller, x) ==
    /\ listening
    /\ last' = [op |-> "dumpDatabase", caller |-> caller,
                req |-> [env |-> envelopeFacts(x)], res |-> authorityOnly(x)]
    /\ listening' \in (IF authorityOnly(x) = "ok" THEN {TRUE} ELSE {TRUE, FALSE})
    /\ UNCHANGED <<peerStores, writers, cache, stats, child, mintHistory, coordinator, store, daemon, keyCounter, published, requests, signedCount>>

\* /dingoDoesAHarakiri: an accepted envelope closes the server.
DingoDoesAHarakiri(caller, x) ==
    /\ listening
    /\ last' = [op |-> "dingoDoesAHarakiri", caller |-> caller,
                req |-> [env |-> envelopeFacts(x)], res |-> authorityOnly(x)]
    /\ listening' \in (IF authorityOnly(x) = "ok" THEN {FALSE} ELSE {TRUE, FALSE})
    /\ UNCHANGED <<peerStores, writers, cache, stats, child, mintHistory, coordinator, store, daemon, keyCounter, published, requests, signedCount>>

\* /stats: the statistics are computed anew when there are none or they are
\* ten minutes old, else the object kept is sent.  The object is assigned,
\* with its time, before the reads of the database, the wallet and the
\* contract that fill it, so a read that fails leaves it partly filled.
Stats(stale, fails) ==
    /\ listening
    /\ LET renew == stats = "null" \/ stale IN
       /\ stats' = IF ~renew THEN stats
                   ELSE IF fails THEN "partial" ELSE "complete"
       /\ last' = [op |-> "stats", caller |-> "public", req |-> <<stale>>,
                   res |-> IF renew /\ fails THEN "RPC failure" ELSE "ok"]
    /\ UNCHANGED <<peerStores, writers, cache, child, mintHistory, coordinator, store, daemon, keyCounter, published,
                   requests, listening, signedCount>>

\* asyncHandler(fn): what the request gets and whether log.txt gets an entry
\* when the promise of fn ends with the given result.
asyncHandler(res) ==
    IF res = "ok" THEN [status |-> 200, logged |-> FALSE]
    ELSE [status |-> 500, logged |-> TRUE]

\* A handler whose promise nobody awaits: a rejection reaches no catch, so
\* nothing is sent and nothing is logged.
NoResponse == 0
unawaited(res) ==
    IF res = "ok" THEN [status |-> 200, logged |-> FALSE]
    ELSE [status |-> NoResponse, logged |-> FALSE]

\* The routes registered with asyncHandler around a handler that awaits its
\* work; /stats is registered so but starts its work without awaiting it,
\* /dumpDatabase and /dingoDoesAHarakiri are registered bare.
AsyncHandled == {"ping", "generateDepositAddress", "registerMintDepositAddress",
                 "createMintTransaction", "submitWithdrawal", "log",
                 "computePendingPayouts", "computeUnspent",
                 "approvePayouts", "approvePayoutsTest"}
NotAwaited == {"stats", "dumpDatabase", "dingoDoesAHarakiri"}

\* The response to the request served last.
response ==
    IF last.op \in AsyncHandled THEN asyncHandler(last.res) ELSE unawaited(last.res)

\* The rows of a table in the order the database returns them.
RECURSIVE withdrawalsInOrder(_)
withdrawalsInOrder(rows) ==
    IF rows = {} THEN <<>>
    ELSE LET w == CHOOSE x \in rows : \A y \in rows : x.id <= y.id IN
         <<w>> \o withdrawalsInOrder(rows \ {w})

RECURSIVE bindingsInOrder(_)
bindingsInOrder(rows) ==
    IF rows = {} THEN <<>>
    ELSE LET r == CHOOSE x \in rows : TRUE IN <<r>> \o bindingsInOrder(rows \ {r})

\* A query that returns every withdrawal row.
getWithdrawalsApprovedOrNot == withdrawals

\* SELECT ... FROM withdrawals WHERE approvedTax="0"
getUnapprovedWithdrawals == {w \in withdrawals : w.approvedTax = 0}

\* computePendingPayouts(processDeposits, processWithdrawals)
\* A binding counted as owing also when its tax is approved in full.
owesTaxOrSettled(approvableTax, approvedTax) == approvableTax >= approvedTax

\* if (approvableTax > approvedTax)
owesTax(approvableTax, approvedTax) == approvableTax > approvedTax

computePendingPayouts(processDeposits, processWithdrawals) ==
    LET rows == IF processDeposits
                THEN SelectSeq(bindingsInOrder(getMintDepositAddresses(DOMAIN received)),
                               LAMBDA a : meetsTax(received[a.depositAddress]))
                ELSE <<>>
        owing == SelectSeq(rows,
                    LAMBDA a : owesTax(taxAmount(received[a.depositAddress]).val,
                                       a.approvedTax))
        unapproved == IF processWithdrawals
                      THEN SelectSeq(withdrawalsInOrder(getUnapprovedWithdrawals),
                               LAMBDA w : meetsTax(getBurnHistory(w.burnAddress,
                                                     w.burnIndex).val.burnAmount))
                      ELSE <<>> IN
    IF \E i \in DOMAIN rows :
           taxAmount(received[rows[i].depositAddress]).val < rows[i].approvedTax
    THEN Err("Deposit approved tax exceeds approvable")
    ELSE Ok([depositTaxPayouts |->
                [i \in DOMAIN owing |->
                    [depositAddress |-> owing[i].depositAddress,
                     amount |-> taxAmount(received[owing[i].depositAddress]).val
                                   - owing[i].approvedTax]],
             withdrawalPayouts |->
                [i \in DOMAIN unapproved |->
                    withdrawalPayoutFor(<<unapproved[i].burnAddress, unapproved[i].burnIndex>>)],
             withdrawalTaxPayouts |->
                [i \in DOMAIN unapproved |->
                    withdrawalTaxPayoutFor(<<unapproved[i].burnAddress,
                                             unapproved[i].burnIndex>>)]])

\* /computePendingPayouts: the reply goes to the caller.
ComputePendingPayouts(caller, x) ==
    /\ listening
    /\ LET v == authorityOnly(x)
           r == computePendingPayouts(isTruthy(x.data.body, "processDeposits"),
                                      isTruthy(x.data.body, "processWithdrawals"))
           res == IF v # "ok" THEN v ELSE IF r.ok THEN "ok" ELSE r.err IN
       /\ last' = [op |-> "computePendingPayouts", caller |-> caller,
                   req |-> [env |-> envelopeFacts(x)], res |-> res]
       /\ published' = IF res = "ok" /\ caller = "public"
                       THEN published \cup {createTimedAndSignedMessage(r.val, Self)}
                       ELSE published
    /\ UNCHANGED <<peerStores, writers, cache, stats, child, mintHistory, coordinator, store, daemon, keyCounter, requests, listening, signedCount>>

\* /computeUnspent
ComputeUnspent(caller, x) ==
    /\ listening
    /\ LET v == authorityOnly(x) IN
       /\ last' = [op |-> "computeUnspent", caller |-> caller,
                   req |-> [env |-> envelopeFacts(x)], res |-> v]
       /\ published' = IF v = "ok" /\ caller = "public"
                       THEN published \cup
                              {createTimedAndSignedMessage([unspent |-> computeUnspent], Self)}
                       ELSE published
    /\ UNCHANGED <<peerStores, writers, cache, stats, child, mintHistory, coordinator, store, daemon, keyCounter, requests, listening, signedCount>>

\* The coordinator asks every node for the pending payouts and the unspent
\* outputs and wraps the batch in an envelope made at its present tip.
CreatePayoutRequest ==
    /\ computePendingPayouts(TRUE, TRUE).ok
    /\ LET p == computePendingPayouts(TRUE, TRUE).val IN
       requests' = requests \cup
           {createTimedAndSignedMessage(
                payoutBody(p.depositTaxPayouts, p.withdrawalPayouts,
                           p.withdrawalTaxPayouts, computeUnspent, NoApprovalChain),
                payoutCoordinator)}
    /\ last' = [op |-> "createPayoutRequest", caller |-> "coordinator",
                req |-> <<>>, res |-> "ok"]
    /\ UNCHANGED <<peerStores, writers, cache, stats, child, mintHistory, coordinator, store, daemon, keyCounter, published, listening, signedCount>>

\* What somebody without an authority key can make of envelopes seen: the
\* data altered under the old signature, and the data signed with another key.
Outsider == NumAuthorities + 1

Forged(S) ==
    {[x EXCEPT !.data.valDingoHeight = @ + 1] : x \in S}
    \cup {createSignedMessage(x.data, Outsider) : x \in S}

(***************************************************************************)
(* Minting: /createMintTransaction and the token contract.                 *)
(***************************************************************************)
MaxMints == 2        \* mints the contract accepts per mint address

\* smartContract.getMintHistory(mintAddress, depositAddress).  A mint address
\* has at most one deposit address, so the history is kept per mint address.
getMintHistory(mintAddress, depositAddress) == mintHistory[mintAddress]

\* smartContract.signMintTransaction (the chain id is fixed).
signMintTransaction(mintAddress, nonce, depositAddress, amount) ==
    sign(<<mintAddress, nonce, depositAddress, amount>>, Self)

\* A voucher for the whole after-tax amount, whatever has been minted.
mintAmountIgnoringMinted(depositedAmountAfterTax, mintedAmount) == depositedAmountAfterTax

\* mintAmount = depositedAmountAfterTax - mintedAmount, and 0 when negative.
mintAmountOf(depositedAmountAfterTax, mintedAmount) ==
    IF depositedAmountAfterTax - mintedAmount < 0 THEN 0
    ELSE depositedAmountAfterTax - mintedAmount

\* database.getMintDepositAddress(mintAddress): the rows of the mint address.
getMintDepositAddress(mintAddress) ==
    {r.depositAddress : r \in {x \in mintDepositAddresses : x.mintAddress = mintAddress}}

\* /createMintTransaction: the body of the reply, or the error thrown.
createMintTransactionResult(mintAddress) ==
    IF ~isAddress(mintAddress) THEN Err("mintAddress missing or invalid")
    ELSE IF getMintDepositAddress(mintAddress) = {} THEN Err("Mint address not registered")
    ELSE
    LET depositAddress == CHOOSE a \in getMintDepositAddress(mintAddress) : TRUE
        depositedAmountAfterTax == amountAfterTax(receivedAt(depositAddress)) IN
    IF ~depositedAmountAfterTax.ok THEN depositedAmountAfterTax
    ELSE
    LET h == getMintHistory(mintAddress, depositAddress)
        mintAmount == mintAmountOf(depositedAmountAfterTax.val, h.mintedAmount) IN
    Ok([mintAddress |-> mintAddress, mintNonce |-> h.mintNonce,
        depositAddress |-> depositAddress, mintAmount |-> mintAmount,
        onContractVerification |->
            signMintTransaction(mintAddress, h.mintNonce, depositAddress, mintAmount)])

CreateMintTransaction(mintAddress) ==
    /\ listening
    /\ LET r == createMintTransactionResult(mintAddress) IN
       /\ published' = IF r.ok THEN published \cup {createTimedAndSignedMessage(r.val, Self)}
                       ELSE published
       /\ last' = [op |-> "createMintTransaction", caller |-> "public",
                   req |-> <<mintAddress>>, res |-> IF r.ok THEN "ok" ELSE r.err]
    /\ UNCHANGED <<peerStores, writers, cache, stats, child, mintHistory, coordinator, store, daemon, keyCounter, requests, listening,
                   signedCount>>

\* The vouchers among the replies a client holds.
vouchers == {x.data.body : x \in {y \in published : "onContractVerification" \in DOMAIN y.data.body}}

\* The contract's mint: a voucher is taken only when an authority signed
\* exactly its fields and its nonce is the current mintNonce of the mint
\* address; the nonce then goes up by one and mintedAmount by mintAmount.
\* Anything else reverts.
Mint(v) ==
    /\ mintHistory[v.mintAddress].mintNonce < MaxMints
    /\ LET h == mintHistory[v.mintAddress]
           accepted ==
               /\ verify(<<v.mintAddress, v.mintNonce, v.depositAddress, v.mintAmount>>,
                         v.onContractVerification, walletAddress(Self))
               /\ v.mintNonce = h.mintNonce IN
       /\ mintHistory' = IF accepted
                         THEN [mintHistory EXCEPT ![v.mintAddress] =
                                  [mintNonce |-> h.mintNonce + 1,
                                   mintedAmount |-> h.mintedAmount + v.mintAmount]]
                         ELSE mintHistory
       /\ last' = [op |-> "mint", caller |-> "public",
                   req |-> [mintAddress |-> v.mintAddress, mintNonce |-> v.mintNonce,
                            mintAmount |-> v.mintAmount],
                   res |-> IF accepted THEN "ok" ELSE "execution reverted"]
    /\ UNCHANGED <<peerStores, writers, cache, stats, child, coordinator, store, daemon, keyCounter, published, requests, listening,
                   signedCount>>

(***************************************************************************)
(* The coordinator's payout run (cli.js, executePayoutsHandler): a test    *)
(* pass over all nodes, then, unless the run is a test, an approval pass   *)
(* in the configured order and the broadcast.  Node Self is this node; the *)
(* other nodes answer as their own state lets them, which is not known     *)
(* here, so each either approves or refuses.                               *)
(***************************************************************************)
MaxRuns == 2         \* payout runs the coordinator starts

NoMessage == [none |-> TRUE]
IdleRun == [id |-> 0, phase |-> "idle", test |-> FALSE, node |-> 1,
            body |-> NoMessage, approvalChain |-> NoApprovalChain,
            inflight |-> NoMessage, asked |-> <<>>, sent |-> 0]

\* A coordinator that takes every answer for an approval.
acceptReplyAlways(reply, i) == TRUE

\* post(...) throws on an error status, validateTimedAndSignedMessage on a
\* reply that is stale or not signed by the node asked.
acceptReply(reply, i) ==
    /\ "error" \notin DOMAIN reply
    /\ validateTimedAndSignedMessage(reply, authorityNodes[i]) = "ok"

\* A run that goes on to the approval pass whether it is a test or not.
phaseAfterTestPassAlwaysExecute(test) == "execute"

\* `if (!test)`: after the test pass a test run is over.
phaseAfterTestPass(test) == IF test THEN "done" ELSE "execute"

\* A loop that is over after its first node.
isLastNodeAtOnce(i) == TRUE

\* The loops run over publicSettings.authorityNodes in order.
isLastNode(i) == i = NumAuthorities

\* The run after the reply of node r.node: an exception ends it; in the
\* approval pass the chain returned becomes the chain sent to the next node.
afterReply(r, reply) ==
    IF ~acceptReply(reply, r.node)
    THEN [r EXCEPT !.phase = "aborted", !.inflight = NoMessage]
    ELSE
    LET chain == IF r.phase = "execute" /\ "error" \notin DOMAIN reply
                 THEN reply.data.body.approvalChain ELSE r.approvalChain IN
    IF ~isLastNode(r.node)
    THEN [r EXCEPT !.node = @ + 1, !.approvalChain = chain, !.inflight = NoMessage]
    ELSE IF r.phase = "test"
    THEN [r EXCEPT !.phase = phaseAfterTestPass(r.test), !.node = 1,
                   !.inflight = NoMessage]
    ELSE [r EXCEPT !.phase = "send", !.approvalChain = chain, !.inflight = NoMessage]

\* executePayouts / executePayoutsTest: the batch is what the nodes report
\* as pending (here: what this node reports) and the unspent outputs.
StartRun(test) ==
    /\ run.phase \in {"idle", "done", "aborted"}
    /\ run.id < MaxRuns
    /\ LET p == computePendingPayouts(FALSE, TRUE) IN
       /\ p.ok
       /\ run' = [IdleRun EXCEPT !.id = run.id + 1, !.phase = "test", !.test = test,
                                 !.body = p.val @@ [unspent |-> computeUnspent]]
    /\ last' = [op |-> "startRun", caller |-> "coordinator", req |-> <<test>>, res |-> "ok"]
    /\ UNCHANGED <<peerStores, writers, cache, stats, child, mintHistory, broadcast, peers, store, daemon, keyCounter, published,
                   requests, listening, signedCount>>

\* The coordinator signs the batch and the current chain at its tip and
\* posts them to the next node.
Post ==
    /\ run.phase \in {"test", "execute"}
    /\ run.inflight = NoMessage
    /\ run' = [run EXCEPT
                 !.inflight = createTimedAndSignedMessage(
                                  run.body @@ [approvalChain |-> run.approvalChain],
                                  payoutCoordinator),
                 !.asked = IF run.phase = "execute" THEN Append(@, run.node) ELSE @]
    /\ last' = [op |-> "post", caller |-> "coordinator", req |-> <<run.node>>, res |-> "ok"]
    /\ UNCHANGED <<peerStores, writers, cache, stats, child, mintHistory, broadcast, peers, store, daemon, keyCounter, published,
                   requests, listening, signedCount>>

\* This node serves the request posted to it and the coordinator takes the
\* reply.
DeliverSelf ==
    /\ run.inflight # NoMessage
    /\ run.node = Self
    /\ ApprovePayoutsServed(run.inflight, run.phase = "test")
    /\ LET o == approvePayoutsOutcome(run.inflight, run.phase = "test")
           reply == IF o.res = "ok"
                    THEN createTimedAndSignedMessage([approvalChain |-> o.reply], Self)
                    ELSE [error |-> o.res] IN
       run' = afterReply(run, reply)
    /\ UNCHANGED <<peerStores, writers, cache, stats, child, mintHistory, broadcast, peers, usedDepositAddresses, daemon, keyCounter,
                   published, requests, listening>>

\* Another node serves the request posted to it: it refuses, or it approves
\* as the handler does (in the approval pass it signs the chain and records
\* the withdrawals as approved), and the coordinator takes the reply.
DeliverPeer(i, approves) ==
    /\ run.inflight # NoMessage
    /\ run.node = i
    /\ i # Self
    /\ LET b == run.inflight.data.body
           vouts == computeVouts(b.depositTaxPayouts, b.withdrawalPayouts,
                                 b.withdrawalTaxPayouts, b.unspent)
           chain == IF b.approvalChain = NoApprovalChain
                    THEN createRawTransaction(b.unspent, vouts.val)
                    ELSE b.approvalChain
           ok == approves /\ vouts.ok
           applies == ok /\ run.phase = "execute"
           reply == IF ~ok THEN [error |-> "refused"]
                    ELSE createTimedAndSignedMessage(
                             [approvalChain |-> IF run.phase = "execute"
                                                THEN signRawTransaction(chain, i)
                                                ELSE chain], i) IN
       /\ peers' = IF applies THEN [peers EXCEPT ![i] = @ \cup paidWithdrawals(b)] ELSE peers
       /\ run' = afterReply(run, reply)
       /\ last' = [op |-> IF run.phase = "test" THEN "peerApprovePayoutsTest"
                          ELSE "peerApprovePayouts",
                   caller |-> "coordinator", req |-> <<i>>,
                   res |-> IF ok THEN "ok" ELSE "refused"]
    /\ UNCHANGED <<peerStores, writers, cache, stats, child, mintHistory, broadcast, store, daemon, keyCounter, published, requests,
                   listening, signedCount>>

\* dingo.sendRawTranscation(approvalChain) after the approval pass.
Broadcast ==
    /\ run.phase = "send"
    /\ broadcast' = Append(broadcast, run.approvalChain)
    /\ run' = [run EXCEPT !.phase = "done", !.sent = @ + 1]
    /\ last' = [op |-> "sendRawTransaction", caller |-> "coordinator", req |-> <<>>,
                res |-> "ok"]
    /\ UNCHANGED <<peerStores, writers, cache, stats, child, mintHistory, peers, store, daemon, keyCounter, published, requests,
                   listening, signedCount>>

(***************************************************************************)
(* smartContract.getBurnHistory with its cache.  A burn index arrives as   *)
(* the caller gave it (a number or any text) and is put into the key by a  *)
(* template string; in list mode no index is given.                        *)
(***************************************************************************)
IndexTexts == {ToString(i) : i \in BurnIndexes} \cup {"undefined"}

\* `${burnAddress}|${burnIndex}`
cacheKey(burnAddress, indexText) == burnAddress \o "|" \o indexText

\* The texts the contract call reads as the number i: decimal digits, with
\* leading zeros or without, and hexadecimal digits after 0x.
indexForms(i) == {ToString(i), "0" \o ToString(i), "0x" \o ToString(i)}

\* The number an index text stands for, 0 when it stands for none.
indexNumber(indexText) ==
    IF \E i \in BurnIndexes : indexText \in indexForms(i)
    THEN CHOOSE i \in BurnIndexes : indexText \in indexForms(i)
    ELSE 0

\* cache.set(key, value)
cacheSet(c, key, value) ==
    [k \in DOMAIN c \cup {key} |-> IF k = key THEN value ELSE c[k]]

\* List mode: every burn of the address is written to the cache under the
\* key made of the address and the index parameter, which is undefined.
RECURSIVE cacheSetAll(_, _, _)
cacheSetAll(c, key, entries) ==
    IF entries = <<>> THEN c
    ELSE cacheSetAll(cacheSet(c, key, Head(entries)), key, Tail(entries))

\* getBurnHistory(burnAddress): the whole history from the contract.
GetBurnHistoryList(burnAddress) ==
    /\ cache' = cacheSetAll(cache, cacheKey(burnAddress, "undefined"),
                            BurnHistory[burnAddress])
    /\ last' = [op |-> "getBurnHistoryList", caller |-> "public",
                req |-> <<burnAddress>>, res |-> "ok"]
    /\ UNCHANGED <<peerStores, writers, stats, child, mintHistory, coordinator, store, daemon, keyCounter, published,
                   requests, listening, signedCount>>

\* getBurnHistory(burnAddress, burnIndex): from the cache when the key is
\* there, else from the contract and then into the cache.
GetBurnHistory(burnAddress, indexText) ==
    /\ LET key == cacheKey(burnAddress, indexText)
           hit == key \in DOMAIN cache
           b == getBurnHistory(burnAddress, indexNumber(indexText)) IN
       /\ cache' = IF ~hit /\ b.ok THEN cacheSet(cache, key, b.val) ELSE cache
       /\ last' = [op |-> "getBurnHistory", caller |-> "public",
                   req |-> <<burnAddress, indexText>>,
                   res |-> IF hit THEN [hit |-> TRUE, ok |-> TRUE, val |-> cache[key]]
                           ELSE [hit |-> FALSE] @@ b]
    /\ UNCHANGED <<peerStores, writers, stats, child, mintHistory, coordinator, store, daemon, keyCounter, published,
                   requests, listening, signedCount>>

(***************************************************************************)
(* The command syncDatabase of the command line: the dump of another       *)
(* authority is fetched and database.reset writes it over the local file.  *)
(***************************************************************************)
NoChild == [none |-> TRUE]
EmptyStore == [used |-> {}, mint |-> {}, wd |-> {}]
localStore == [used |-> usedDepositAddresses, mint |-> mintDepositAddresses,
               wd |-> withdrawals]

\* What /dumpDatabase of another authority can return.
Dumps ==
    {EmptyStore,
     [used |-> {pubkey(1, 1), pubkey(2, 1)},
      mint |-> {[mintAddress |-> "m1",
                 depositAddress |-> createMultisig(authorityThreshold,
                                       <<pubkey(1, 1), pubkey(2, 1)>>).val.address,
                 redeemScript |-> createMultisig(authorityThreshold,
                                       <<pubkey(1, 1), pubkey(2, 1)>>).val.redeemScript,
                 approvedTax |-> 0]},
      wd |-> {[id |-> 1, burnAddress |-> "bA", burnIndex |-> 1,
               approvedAmount |-> 5039, approvedTax |-> 60]}]}

\* syncDatabase(index): reset removes the file, spawns sqlite3, writes the
\* dump to its standard input and returns; nothing waits for the process.
SyncDatabase(sql) ==
    /\ child = NoChild
    /\ usedDepositAddresses' = {}
    /\ mintDepositAddresses' = {}
    /\ withdrawals' = {}
    /\ child' = [sql |-> sql, old |-> localStore]
    /\ last' = [op |-> "syncDatabase", caller |-> "operator", req |-> <<sql>>,
                res |-> "ok"]
    /\ UNCHANGED <<peerStores, writers, cache, stats, mintHistory, coordinator, daemon, keyCounter, published,
                   requests, listening, signedCount>>

\* The spawned sqlite3 runs the dump, which is one transaction.
ChildImports ==
    /\ child # NoChild
    /\ usedDepositAddresses' = child.sql.used
    /\ mintDepositAddresses' = child.sql.mint
    /\ withdrawals' = child.sql.wd
    /\ child' = NoChild
    /\ last' = [op |-> "sqlite3", caller |-> "operator", req |-> <<>>, res |-> "ok"]
    /\ UNCHANGED <<peerStores, writers, cache, stats, mintHistory, coordinator, daemon, keyCounter, published,
                   requests, listening, signedCount>>

(***************************************************************************)
(* The write lock.  A handler passes its function to acquire(); the lock   *)
(* runs the functions one at a time in the order they were passed, and a   *)
(* function is suspended at every await between its checks and its writes. *)
(***************************************************************************)
MaxWriters == 2         \* requests that are under way at once
Writers == 1..MaxWriters
NoJob == [kind |-> "none"]
IdleWriters == [queue |-> <<>>, pc |-> [w \in Writers |-> "idle"],
                job |-> [w \in Writers |-> NoJob], seen |-> [w \in Writers |-> "none"]]

\* A lock that lets every function run as soon as it is passed.
mayEnterAtOnce(queue, w) == TRUE

\* lock.acquire('lock', fn): fn runs when the functions passed before it
\* have ended.
mayEnter(queue, w) == queue # <<>> /\ Head(queue) = w

\* The requests that take the write lock, for one burn.
WriterJobs ==
    {[kind |-> "submitWithdrawal", key |-> k] : k \in PayKeys}
    \cup {[kind |-> "approvePayouts", key |-> k,
            x |-> createTimedAndSignedMessage(
                     payoutBody(<<>>, <<withdrawalPayoutFor(k)>>,
                                <<withdrawalTaxPayoutFor(k)>>, computeUnspent,
                                NoApprovalChain), payoutCoordinator)] :
           k \in {j \in PayKeys : amountAfterTax(getBurnHistory(j[1], j[2]).val.burnAmount).val > 0}}

\* The checks of a request, made on the store as it is now.
checksOf(job) ==
    IF job.kind = "submitWithdrawal"
    THEN IF withdrawalRows(job.key[1], job.key[2]) # {}
         THEN "Withdrawal already submitted"
         ELSE LET r == submitWithdrawalUnchecked(job.key[1], job.key[2]) IN
              IF r.ok THEN "ok" ELSE r.err
    ELSE approvePayoutsOutcome(job.x, FALSE).res

\* A request arrives and passes its function to acquire().
Call(w, job) ==
    /\ listening
    /\ writers.pc[w] = "idle"
    /\ writers' = [writers EXCEPT !.queue = Append(@, w), !.pc[w] = "waiting",
                                  !.job[w] = job]
    /\ last' = [op |-> "acquire", caller |-> "public", req |-> <<w>>, res |-> "ok"]
    /\ UNCHANGED <<peerStores, cache, stats, child, mintHistory, coordinator, store, daemon, keyCounter,
                   published, requests, listening, signedCount>>

\* The function of w starts: it makes its checks and is suspended.
Enter(w) ==
    /\ writers.pc[w] = "waiting"
    /\ mayEnter(writers.queue, w)
    /\ writers' = [writers EXCEPT !.pc[w] = "checked",
                                  !.seen[w] = checksOf(writers.job[w])]
    /\ last' = [op |-> "enter", caller |-> "public", req |-> <<w>>,
                res |-> checksOf(writers.job[w])]
    /\ UNCHANGED <<peerStores, cache, stats, child, mintHistory, coordinator, store, daemon, keyCounter,
                   published, requests, listening, signedCount>>

\* The function of w goes on: what its checks allowed is written (signed and
\* applied, for a payout), or the error is thrown.
Write(w) ==
    /\ writers.pc[w] = "checked"
    /\ LET job == writers.job[w]
           ok == writers.seen[w] = "ok"
           r == registerWithdrawal(job.key[1], job.key[2])
           b == job.x.data.body IN
       /\ withdrawals' =
             IF ~ok THEN withdrawals
             ELSE IF job.kind = "submitWithdrawal"
                  THEN (IF r.ok THEN r.val ELSE withdrawals)
                  ELSE applyWithdrawalPayouts(b.withdrawalPayouts, b.withdrawalTaxPayouts)
       /\ mintDepositAddresses' =
             IF ok /\ job.kind = "approvePayouts"
             THEN applyDepositTaxPayouts(b.depositTaxPayouts) ELSE mintDepositAddresses
       /\ signedCount' = [k \in BurnKeys |->
                             IF ok /\ job.kind = "approvePayouts" /\ k = job.key
                             THEN signedCount[k] + 1 ELSE signedCount[k]]
       /\ published' = IF ok /\ job.kind = "submitWithdrawal" /\ r.ok
                       THEN published \cup {createTimedAndSignedMessage(EmptyBody, Self)}
                       ELSE published
       /\ last' = [op |-> "write", caller |-> "public", req |-> <<w>>,
                   res |-> IF ok /\ job.kind = "submitWithdrawal" /\ ~r.ok
                           THEN r.err ELSE writers.seen[w]]
    /\ writers' = [writers EXCEPT !.pc[w] = "written"]
    /\ UNCHANGED <<peerStores, cache, stats, child, mintHistory, coordinator, usedDepositAddresses, daemon,
                   keyCounter, requests, listening>>

\* The function of w has ended and the lock goes to the next.
Release(w) ==
    /\ writers.pc[w] = "written"
    /\ writers' = [writers EXCEPT
                      !.queue = SelectSeq(@, LAMBDA v : v # w), !.pc[w] = "idle",
                      !.job[w] = NoJob, !.seen[w] = "none"]
    /\ last' = [op |-> "release", caller |-> "public", req |-> <<w>>, res |-> "ok"]
    /\ UNCHANGED <<peerStores, cache, stats, child, mintHistory, coordinator, store, daemon, keyCounter,
                   published, requests, listening, signedCount>>

(***************************************************************************)
(* Initial state: an empty store, a chain of syncDelayThreshold + 1 blocks *)
(* on fork 1, no receipts.                                                 *)
(***************************************************************************)
Init ==
    /\ usedDepositAddresses = {}
    /\ mintDepositAddresses = {}
    /\ withdrawals = {}
    /\ blocks = syncDelayThreshold
    /\ hashes = [h \in 0..MaxTip + 1 |-> 1]
    /\ received = <<>>
    /\ utxos = <<>>
    /\ keyCounter = [i \in Authorities |-> 0]
    /\ published = {}
    /\ requests = {}
    /\ listening = TRUE
    /\ signedCount = [k \in BurnKeys |-> 0]
    /\ cache = <<>>
    /\ stats = "null"
    /\ child = NoChild
    /\ writers = IdleWriters
    /\ mintHistory = [m \in MintAddresses |-> [mintNonce |-> 0, mintedAmount |-> 0]]
    /\ run = IdleRun
    /\ broadcast = <<>>
    /\ peers = [i \in Authorities \ {Self} |-> {}]
    /\ peerStores = [i \in Authorities \ {Self} |-> [used |-> {}, table |-> {}]]
    /\ last = [op |-> "none", caller |-> "none", req |-> <<>>, res |-> "ok"]

(***************************************************************************)
(* Specifications.  Each takes the requests of one part of the node, with  *)
(* the inputs a client, an operator or the chain can supply.               *)
(***************************************************************************)
DepositAmounts == {5099}

\* Withdrawals and their payout: the change address is funded, burns are
\* submitted, the coordinator (or somebody else) asks for approvals.
Next ==
    \/ \E k \in BurnKeys : SubmitWithdrawal(k[1], k[2])
    \/ \E x \in DepositAmounts : Deposit(changeAddress, x)
    \/ \E x \in PayoutEnvelopes : ApprovePayouts(x)
    \/ \E x \in PayoutEnvelopes : ApprovePayoutsTest(x)

Spec == Init /\ [][Next]_vars

(***************************************************************************)
(* Properties of withdrawals and their payout (Spec).                      *)
(***************************************************************************)
isSubmitted(w) == w.approvedAmount = 0 /\ w.approvedTax = 0

SignsOnlySubmittedOnce ==
    /\ [](\A k \in BurnKeys : signedCount[k] <= 1)
    /\ [][last'.op = "approvePayouts" =>
            /\ (signedCount' # signedCount =>
                   \A k \in last'.req.paid :
                       \E w \in withdrawalRows(k[1], k[2]) : isSubmitted(w))
            /\ ((\E k \in last'.req.paid :
                    \E w \in withdrawalRows(k[1], k[2]) : ~isSubmitted(w)) =>
                   /\ last'.res # "ok"
                   /\ signedCount' = signedCount
                   /\ store' = store)]_vars

\* A batch whose withdrawal was approved before is posted again by the
\* coordinator and refused.
SignsOnlySubmittedOnceWitness ==
    /\ last.op = "approvePayouts"
    /\ last.caller = "coordinator"
    /\ last.res = "Withdrawal already approved"
    /\ \E k \in last.req.paid : signedCount[k] = 1

burnPassesChecks(burnAddress, burnIndex) ==
    /\ burnAddress \in BurnAddresses
    /\ burnIndex \in DOMAIN BurnHistory[burnAddress]
    /\ "text" \notin DOMAIN BurnHistory[burnAddress][burnIndex].burnDestination
    /\ BurnHistory[burnAddress][burnIndex].burnAmount >= FLAT_FEE

generateDepositAddressReplies == {x \in published : "mintAddress" \in DOMAIN x.data.body}

ResponseLists ==
    LET full == [1..NumAuthorities -> generateDepositAddressReplies] IN
    full \cup {SubSeq(rs, 1, NumAuthorities - 1) : rs \in full}
         \cup {[i \in 1..NumAuthorities + 1 |-> x] : x \in generateDepositAddressReplies}

NextRegistrar ==
    \/ \E i \in Authorities, m \in MintAddresses \cup {"notAnAddress"} :
            GenerateDepositAddress(i, m)
    \/ \E rs \in ResponseLists : RegisterMintDepositAddress(rs)

SpecRegistrar == Init /\ [][NextRegistrar]_vars

(***************************************************************************)
(* Properties of the registrar (SpecRegistrar).                            *)
(***************************************************************************)
pubkeysOf(r) == Range(r.redeemScript.redeem)

\* C5: the pubkey lists of two bindings are disjoint, every pubkey of a
\* binding is recorded as used, and a registration request that contains a
\* pubkey already used is refused and leaves both tables as they are.
PubkeyUniqueness ==
    /\ [](\A r1, r2 \in mintDepositAddresses :
             r1 # r2 => pubkeysOf(r1) \cap pubkeysOf(r2) = {})
    /\ [](\A r \in mintDepositAddresses : pubkeysOf(r) \subseteq usedDepositAddresses)
    /\ [][(last'.op = "registerMintDepositAddress"
             /\ last'.req.pubkeys \cap usedDepositAddresses # {}) =>
            /\ last'.res # "ok"
            /\ store' = store]_vars

\* A request with one fresh and one used pubkey, from envelopes that pass
\* every earlier check, has been refused while a binding exists.
PubkeyUniquenessWitness ==
    /\ last.op = "registerMintDepositAddress"
    /\ last.res = "At least one deposit address has been previously registered"
    /\ mintDepositAddresses # {}
    /\ last.req.pubkeys \ usedDepositAddresses # {}

\* C6: no two bindings share the mintAddress or the depositAddress, and a
\* registration for a mintAddress already bound fails and adds no binding.
MintBindingBijection ==
    /\ [](\A r1, r2 \in mintDepositAddresses :
             (r1.mintAddress = r2.mintAddress \/ r1.depositAddress = r2.depositAddress)
                 => r1 = r2)
    /\ [][(last'.op = "registerMintDepositAddress"
             /\ \E r \in mintDepositAddresses :
                    r.mintAddress = last'.req.mintAddress) =>
            /\ last'.res # "ok"
            /\ mintDepositAddresses' = mintDepositAddresses]_vars

\* Fresh pubkeys for a mintAddress already bound reached the INSERT and the
\* unique column refused them.
MintBindingBijectionWitness ==
    /\ last.op = "registerMintDepositAddress"
    /\ last.res = "SQLITE_CONSTRAINT: UNIQUE constraint failed"
    /\ \E r \in mintDepositAddresses :
           r.mintAddress = last.req.mintAddress

\* C12: a registration is all or nothing on the store: a successful one adds
\* NumAuthorities used pubkeys and one binding, a failed one leaves both
\* tables as they were.
RegistrationAtomic ==
    [][last'.op = "registerMintDepositAddress" =>
         IF last'.res = "ok"
         THEN /\ Cardinality(usedDepositAddresses' \ usedDepositAddresses) = NumAuthorities
              /\ Cardinality(mintDepositAddresses' \ mintDepositAddresses) = 1
              /\ usedDepositAddresses \subseteq usedDepositAddresses'
              /\ mintDepositAddresses \subseteq mintDepositAddresses'
         ELSE /\ usedDepositAddresses' = usedDepositAddresses
              /\ mintDepositAddresses' = mintDepositAddresses]_vars

\* A registration failed at the INSERT of the binding and its pubkeys are
\* recorded as used although no binding holds them.
RegistrationLeftUsedPubkeys ==
    /\ last.op = "registerMintDepositAddress"
    /\ last.res = "SQLITE_CONSTRAINT: UNIQUE constraint failed"
    /\ last.req.pubkeys \subseteq usedDepositAddresses
    /\ \A r \in mintDepositAddresses : pubkeysOf(r) \cap last.req.pubkeys = {}

(***************************************************************************)
(* Deposit tax: an address is registered for a mint address, coins arrive  *)
(* there, a burn is submitted, batches are posted.                         *)
(***************************************************************************)
\* The replies of the authorities, each at its own position.
PositionalResponseLists ==
    {rs \in [1..NumAuthorities -> published] :
        \A i \in DOMAIN rs : /\ rs[i].signature.by = i
                             /\ "depositAddress" \in DOMAIN rs[i].data.body}

\* Batches with any list of deposit-tax entries, alone or with the one
\* withdrawal this specification submits.
DepositTaxEnvelopes ==
    {createTimedAndSignedMessage(
         payoutBody(d, [i \in DOMAIN ks |-> withdrawalPayoutFor(ks[i])],
                    [i \in DOMAIN ks |-> withdrawalTaxPayoutFor(ks[i])],
                    computeUnspent, NoApprovalChain), payoutCoordinator) :
        <<d, ks>> \in ListsOver(DepositTaxEntries) \X {<<>>, <<<<"bA", 1>>>>}}

NextDepositTax ==
    \/ \E i \in Authorities : keyCounter[i] = 0 /\ GenerateDepositAddress(i, "m1")
    \/ \E rs \in PositionalResponseLists : RegisterMintDepositAddress(rs)
    \/ \E a \in boundDepositAddresses, x \in DepositAmounts : Deposit(a, x)
    \/ SubmitWithdrawal("bA", 1)
    \/ \E x \in DepositTaxEnvelopes : ApprovePayouts(x)
    \/ \E x \in DepositTaxEnvelopes : ApprovePayoutsTest(x)

SpecDepositTax == Init /\ [][NextDepositTax]_vars

approvableTax(a) == IF meetsTax(receivedAt(a)) THEN taxAmount(receivedAt(a)).val ELSE 0

\* C3: right after a batch that /approvePayouts accepted has been applied,
\* every binding has approvedTax <= tax(receipts of its depositAddress).
ApprovedTaxWithinTax ==
    (last.op = "approvePayouts" /\ last.res = "ok") =>
        \A r \in mintDepositAddresses : r.approvedTax <= approvableTax(r.depositAddress)

\* An accepted batch has left a binding with more approved tax than the tax
\* of all it has received.
ApprovedTaxExceedsTax ==
    /\ last.op = "approvePayouts" /\ last.res = "ok"
    /\ \E r \in mintDepositAddresses : r.approvedTax > approvableTax(r.depositAddress)

\* C4: the approvedTax of a binding never decreases, bindings are never
\* removed, and only /approvePayouts changes an approvedTax.
ApprovedTaxMonotone ==
    [][/\ \A r \in mintDepositAddresses :
             \E q \in mintDepositAddresses' :
                 /\ q.depositAddress = r.depositAddress
                 /\ q.approvedTax >= r.approvedTax
       /\ last'.op # "approvePayouts" =>
             \A r \in mintDepositAddresses : r \in mintDepositAddresses']_vars

\* An accepted batch has left a binding with a negative approvedTax.
ApprovedTaxDecreased ==
    /\ last.op = "approvePayouts" /\ last.res = "ok"
    /\ \E r \in mintDepositAddresses : r.approvedTax < 0

(***************************************************************************)
(* Envelopes under a moving chain: replies and operator requests are made  *)
(* at some tip and presented, as made or altered, at a later one.          *)
(***************************************************************************)
Presented == published \cup requests \cup Forged(published \cup requests)

NextEnvelope ==
    \/ AdvanceTip
    \/ \E h \in 1..MaxTip : Reorg(h)
    \/ published = {} /\ Ping
    \/ requests = {} /\ OperatorRequest(payoutCoordinator, EmptyBody)
    \/ \E x \in Presented : Log("public", x)
    \/ \E x \in Presented : ApprovePayoutsTest(x)

SpecEnvelope == Init /\ [][NextEnvelope]_vars

EnvelopeErrors == {"Message expired", "Verification failed: incorrect chain",
                   "Block height out of range", "Authority verification failed"}

\* C7: when validateTimedAndSignedMessageOne (at /log) or
\* validateTimedAndSignedMessage (at /approvePayoutsTest, for the
\* coordinator) accepts an envelope at tip T, its signature recovers to an
\* allowed address, its height is at least T - 2 * syncDelayThreshold and
\* the verifier's block hash at that height is the hash it carries; an
\* envelope that fails one of the three is rejected.
EnvelopeValidity ==
    last.op \in {"log", "approvePayoutsTest"} =>
        LET e == last.req.env
            allowed == IF last.op = "log" THEN Range(authorityNodes)
                       ELSE {authorityNodes[payoutCoordinator]} IN
        (last.res \notin EnvelopeErrors) =>
            /\ e.signer \in allowed
            /\ e.valDingoHeight >= blocks - 2 * syncDelayThreshold
            /\ e.valDingoHeight \in 0..blocks
            /\ hashes[e.valDingoHeight] = e.valDingoHash

\* An envelope made syncDelayThreshold blocks ago is accepted at /log.
EnvelopeValidityWitness ==
    /\ last.op = "log" /\ last.res = "ok"
    /\ last.req.env.valDingoHeight + 2 * syncDelayThreshold = blocks

(***************************************************************************)
(* Authority-only endpoints: operators post requests made with their key;  *)
(* anybody else posts what the public endpoints have replied.              *)
(***************************************************************************)
Calls ==
    ({"public"} \X (published \cup Forged(published)))
    \cup ({"operator"} \X requests)

NextOperator ==
    \/ Ping
    \/ GenerateDepositAddress(Self, "m1")
    \/ \E i \in Authorities, b \in OperatorBodies : OperatorRequest(i, b)
    \/ \E c \in Calls : Log(c[1], c[2])
    \/ \E c \in Calls : DumpDatabase(c[1], c[2])
    \/ \E c \in Calls : DingoDoesAHarakiri(c[1], c[2])
    \/ \E c \in Calls : ComputePendingPayouts(c[1], c[2])
    \/ \E c \in Calls : ComputeUnspent(c[1], c[2])

SpecOperator == Init /\ [][NextOperator]_vars

AuthorityOnlyOps == {"log", "dumpDatabase", "dingoDoesAHarakiri",
                     "computePendingPayouts", "computeUnspent"}

\* C8: an authority-only endpoint succeeds only for a caller who made the
\* envelope with an authority key; what the public endpoints replied does
\* not make it succeed.
AuthorityOnlyEndpoints ==
    (last.op \in AuthorityOnlyOps /\ last.res = "ok") => last.caller # "public"

\* Somebody without a key has shut the server with a reply of /ping.
PublicCallerShutsServer ==
    /\ last.op = "dingoDoesAHarakiri" /\ last.res = "ok"
    /\ last.caller = "public"
    /\ ~listening

(***************************************************************************)
(* Replay of payout requests: the coordinator makes a batch at some tip    *)
(* and the request is posted then or later.                                *)
(***************************************************************************)
NextReplay ==
    \/ AdvanceTip
    \/ SubmitWithdrawal("bA", 1)
    \/ \E x \in DepositAmounts : Deposit(changeAddress, x)
    \/ requests = {} /\ CreatePayoutRequest
    \/ \E x \in requests : ApprovePayouts(x)
    \/ \E x \in requests : ApprovePayoutsTest(x)

SpecReplay == Init /\ [][NextReplay]_vars

\* The tip at which createTimedAndSignedMessage made the envelope.
createdAtTip(e) == e.valDingoHeight + syncDelayThreshold

\* C10: a payout request posted to /approvePayouts when the tip is
\* 2 * syncDelayThreshold or more blocks past the tip at which it was made
\* is refused as expired; nothing is signed and the store stays as it is.
ExpiredReplayRejected ==
    [][(last'.op = "approvePayouts"
          /\ blocks >= createdAtTip(last'.req.env) + 2 * syncDelayThreshold) =>
         /\ last'.res = "Message expired"
         /\ signedCount' = signedCount
         /\ store' = store]_vars

\* A batch that pays a withdrawal still SUBMITTED, from funds that exist, is
\* refused as expired exactly 2 * syncDelayThreshold blocks after it was made.
ExpiredReplayRejectedWitness ==
    /\ last.op = "approvePayouts" /\ last.res = "Message expired"
    /\ blocks = createdAtTip(last.req.env) + 2 * syncDelayThreshold
    /\ utxos # <<>>
    /\ \E w \in withdrawals :
           isSubmitted(w) /\ <<w.burnAddress, w.burnIndex>> \in last.req.paid

(***************************************************************************)
(* The fee rule of validatePayouts and computeVouts, applied to batches    *)
(* of every shape (SpecFees).                                              *)
(***************************************************************************)
\* Deposit tax entries around the fee of one output.
FeeAmounts == {0, PAYOUT_NETWORK_FEE_PER_TX - 1, PAYOUT_NETWORK_FEE_PER_TX}
FeeDepositEntries == {[depositAddress |-> changeAddress, amount |-> x] : x \in FeeAmounts}

\* Both functions are applied, once, to the same three lists; the lists of
\* withdrawal payouts and of withdrawal tax payouts are chosen independently.
EvaluatePayouts(depositTaxPayouts, withdrawalPayouts, withdrawalTaxPayouts) ==
    /\ last.op = "none"
    /\ LET v == validatePayouts(depositTaxPayouts, withdrawalPayouts, withdrawalTaxPayouts)
           c == computeVouts(depositTaxPayouts, withdrawalPayouts, withdrawalTaxPayouts,
                             computeUnspent) IN
       last' = [op |-> "evaluatePayouts", caller |-> "none",
                req |-> [depositTaxPayouts |-> depositTaxPayouts,
                         withdrawalPayouts |-> withdrawalPayouts,
                         withdrawalTaxPayouts |-> withdrawalTaxPayouts],
                res |-> <<v, IF c.ok THEN "ok" ELSE c.err>>]
    /\ UNCHANGED <<peerStores, writers, cache, stats, child, mintHistory, coordinator, store, daemon, keyCounter, published, requests, listening, signedCount>>

NextFees ==
    \E d \in ListsOver(FeeDepositEntries), ks \in ListsOver(PayKeys), ts \in ListsOver(PayKeys) :
        EvaluatePayouts(d, [i \in DOMAIN ks |-> withdrawalPayoutFor(ks[i])],
                        [i \in DOMAIN ts |-> withdrawalTaxPayoutFor(ts[i])])

SpecFees == Init /\ [][NextFees]_vars

\* The sum of the deposit tax and withdrawal tax amounts of a batch falls
\* short of one fee per deposit tax payout and per withdrawal payout.
taxFallsShort(b) ==
    sumAmounts(b.depositTaxPayouts) + sumAmounts(b.withdrawalTaxPayouts)
      < (Len(b.depositTaxPayouts) + Len(b.withdrawalPayouts)) * PAYOUT_NETWORK_FEE_PER_TX

\* C14: validatePayouts and computeVouts raise their insufficient-tax error
\* exactly when the summed deposit tax and withdrawal tax amounts are less
\* than (number of deposit tax payouts + number of withdrawal payouts) *
\* PAYOUT_NETWORK_FEE_PER_TX; withdrawal tax payouts add no fee, and the two
\* functions decide alike.
InsufficientTaxRule ==
    last.op = "evaluatePayouts" =>
        /\ (last.res[1] = "Insufficient tax to cover network fees") <=> taxFallsShort(last.req)
        /\ (last.res[2] = "Insufficient tax for network fee") <=> taxFallsShort(last.req)

\* A batch with more withdrawal tax payouts than withdrawal payouts whose
\* tax equals the fee exactly has passed the fee check of both functions.
InsufficientTaxRuleWitness ==
    /\ last.op = "evaluatePayouts"
    /\ Len(last.req.withdrawalTaxPayouts) > Len(last.req.withdrawalPayouts)
    /\ last.req.withdrawalPayouts # <<>>
    /\ sumAmounts(last.req.depositTaxPayouts) + sumAmounts(last.req.withdrawalTaxPayouts)
         = (Len(last.req.depositTaxPayouts) + Len(last.req.withdrawalPayouts))
              * PAYOUT_NETWORK_FEE_PER_TX
    /\ last.res[1] # "Insufficient tax to cover network fees"
    /\ last.res[2] # "Insufficient tax for network fee"


(***************************************************************************)
(* Payout approval with a wallet daemon that may fail (SpecRpcFailure).    *)
(***************************************************************************)
NextRpcFailure ==
    \/ \E k \in BurnKeys : SubmitWithdrawal(k[1], k[2])
    \/ \E x \in DepositAmounts : Deposit(changeAddress, x)
    \/ \E x \in PayoutEnvelopes : ApprovePayouts(x)
    \/ \E x \in PayoutEnvelopes, step \in RpcSteps : ApprovePayoutsRpcFailure(x, step)

SpecRpcFailure == Init /\ [][NextRpcFailure]_vars

\* C13: whenever /approvePayouts answers with an error, a failure while
\* signing or while building the signed reply included, the bindings and
\* the withdrawals are as they were before the request.
ApprovePayoutsErrorLeavesStore ==
    [][(last'.op = "approvePayouts" /\ last'.res # "ok") =>
          /\ mintDepositAddresses' = mintDepositAddresses
          /\ withdrawals' = withdrawals]_vars

\* The request was answered with the error of the reply's construction and
\* a withdrawal it names is approved.
ApprovePayoutsErrorAfterApply ==
    /\ last.op = "approvePayouts"
    /\ last.res = "RPC failure in createTimedAndSignedMessage"
    /\ \E w \in withdrawals :
           ~isSubmitted(w) /\ <<w.burnAddress, w.burnIndex>> \in last.req.paid


(***************************************************************************)
(* Registration under a moving chain, with replies in any order, of any    *)
(* age, altered or signed by an outsider (SpecPositional).                 *)
(***************************************************************************)
PresentedResponseLists ==
    LET S == generateDepositAddressReplies \cup Forged(generateDepositAddressReplies)
        full == [1..NumAuthorities -> S] IN
    full \cup {SubSeq(rs, 1, NumAuthorities - 1) : rs \in full}
         \cup {[i \in 1..NumAuthorities + 1 |-> x] : x \in generateDepositAddressReplies}

\* The replies are asked for at the first tip and presented at any later one.
NextPositional ==
    \/ AdvanceTip
    \/ \E h \in 1..MaxTip : Reorg(h)
    \/ \E i \in Authorities :
          blocks = syncDelayThreshold /\ keyCounter[i] = 0 /\ GenerateDepositAddress(i, "m1")
    \/ \E rs \in PresentedResponseLists : RegisterMintDepositAddress(rs)

SpecPositional == Init /\ [][NextPositional]_vars

\* Entry i of a request is time-valid at the current tip and signed by the
\* authority configured at position i.
entryInPlace(e, i) ==
    /\ i \in DOMAIN authorityNodes
    /\ e.signer = authorityNodes[i]
    /\ e.valDingoHeight >= blocks - 2 * syncDelayThreshold
    /\ e.valDingoHeight \in 0..blocks
    /\ hashes[e.valDingoHeight] = e.valDingoHash

\* C17: /registerMintDepositAddress accepts only a list of exactly
\* NumAuthorities entries in which entry i is a time-valid envelope signed by
\* authorityNodes[i]; a list in another order, of another length or with an
\* entry that is stale or not so signed is rejected and the store stays as
\* it is.
RegistrationPositional ==
    [][last'.op = "registerMintDepositAddress" =>
         LET e == last'.req.entries
             inPlace == /\ Len(e) = NumAuthorities
                        /\ \A i \in DOMAIN e : entryInPlace(e[i], i) IN
         /\ last'.res = "ok" => inPlace
         /\ ~inPlace => (last'.res # "ok" /\ store' = store)]_vars

\* The replies of both authorities, fresh and unaltered, have been presented
\* in the reverse of the configured order and refused.
RegistrationPositionalWitness ==
    /\ last.op = "registerMintDepositAddress"
    /\ last.res = "Authority verification failed"
    /\ Len(last.req.entries) = NumAuthorities
    /\ \A i \in DOMAIN last.req.entries :
           entryInPlace(last.req.entries[i], NumAuthorities + 1 - i)
    /\ store = <<{}, {}, {}>>


(***************************************************************************)
(* Registration, deposits, vouchers and mints of one mint address          *)
(* (SpecMint).                                                             *)
(***************************************************************************)
MintDepositAmounts == {FLAT_FEE - 1, 5099}

NextMint ==
    \/ \E i \in Authorities : keyCounter[i] = 0 /\ GenerateDepositAddress(i, "m1")
    \/ \E rs \in PositionalResponseLists : RegisterMintDepositAddress(rs)
    \/ \E a \in boundDepositAddresses, x \in MintDepositAmounts : Deposit(a, x)
    \/ \E m \in MintAddresses \cup {"notAnAddress"} : CreateMintTransaction(m)
    \/ \E v \in vouchers : Mint(v)

SpecMint == Init /\ [][NextMint]_vars

\* Confirmed deposits of the deposit address bound to a mint address, and
\* what of them may be minted: the amount after tax once the flat fee is
\* met, nothing before.
confirmedDeposits(mintAddress) ==
    receivedAt(CHOOSE a \in getMintDepositAddress(mintAddress) : TRUE)
mintableConfirmed(mintAddress) ==
    LET d == confirmedDeposits(mintAddress) IN
    IF d >= FLAT_FEE THEN d - (FLAT_FEE + (d - FLAT_FEE) \div 100) ELSE 0

\* C15: for a registered mint address /createMintTransaction answers with a
\* voucher for the current mintNonce whose mintAmount is
\* max(0, mintableConfirmed - mintedAmount), for every confirmed deposit
\* total, those below FLAT_FEE and 0 included.
CreateMintTransactionVoucher ==
    (last.op = "createMintTransaction" /\ getMintDepositAddress(last.req[1]) # {}) =>
        /\ last.res = "ok"
        /\ \E v \in vouchers :
              /\ v.mintAddress = last.req[1]
              /\ v.mintNonce = mintHistory[last.req[1]].mintNonce
              /\ v.mintAmount =
                    IF mintableConfirmed(last.req[1]) > mintHistory[last.req[1]].mintedAmount
                    THEN mintableConfirmed(last.req[1]) - mintHistory[last.req[1]].mintedAmount
                    ELSE 0

\* A voucher was asked for a registered mint address whose deposit address
\* has received less than FLAT_FEE, and the request was answered with an
\* error.
CreateMintTransactionThrows ==
    /\ last.op = "createMintTransaction"
    /\ getMintDepositAddress(last.req[1]) # {}
    /\ confirmedDeposits(last.req[1]) < FLAT_FEE
    /\ last.res = "Amount fails to meet tax"

\* C16: with a contract that takes a voucher only for the current mintNonce
\* and then raises the nonce, and deposits that only grow, mintedAmount
\* never exceeds the after-tax amount of the confirmed deposits; of several
\* vouchers for one nonce at most one is taken.
MintedWithinDeposits ==
    /\ [](\A m \in MintAddresses :
             mintHistory[m].mintedAmount <=
                 IF getMintDepositAddress(m) = {} THEN 0 ELSE mintableConfirmed(m))
    /\ [][\A m \in MintAddresses :
             mintHistory'[m] # mintHistory[m] =>
                 /\ last'.req.mintNonce = mintHistory[m].mintNonce
                 /\ mintHistory'[m].mintNonce = mintHistory[m].mintNonce + 1
                 /\ mintHistory'[m].mintedAmount =
                        mintHistory[m].mintedAmount + last'.req.mintAmount]_vars

\* Two vouchers for nonce 0 with different amounts exist; one has been
\* minted and the other one was then refused.
MintedWithinDepositsWitness ==
    /\ last.op = "mint"
    /\ last.res = "execution reverted"
    /\ last.req.mintNonce = 0
    /\ last.req.mintAmount > 0
    /\ mintHistory[last.req.mintAddress].mintedAmount > 0
    /\ mintHistory[last.req.mintAddress].mintedAmount # last.req.mintAmount


(***************************************************************************)
(* Payout runs of the coordinator against this node and the other node,    *)
(* with the chain moving while requests are under way (SpecRun).           *)
(***************************************************************************)
\* Batches that pay one withdrawal, whatever its state, signed by any node.
SingleWithdrawalEnvelopes ==
    {createTimedAndSignedMessage(
         payoutBody(<<>>, <<withdrawalPayoutFor(k)>>, <<withdrawalTaxPayoutFor(k)>>,
                    computeUnspent, NoApprovalChain), i) :
        <<k, i>> \in PayKeys \X Authorities}

\* Withdrawals are submitted and the wallet is funded before the first run;
\* a reorganisation strikes while a request is on its way; between
\* runs somebody posts a batch to /approvePayoutsTest.
NextRun ==
    \/ \E k \in PayKeys : run.id = 0 /\ SubmitWithdrawal(k[1], k[2])
    \/ \E x \in DepositAmounts : run.id = 0 /\ Deposit(changeAddress, x)
    \/ run.id = 0 /\ blocks <= syncDelayThreshold /\ AdvanceTip
    \/ \E h \in 1..MaxTip : run.inflight # NoMessage /\ Reorg(h)
    \/ \E test \in BOOLEAN : StartRun(test)
    \/ Post
    \/ DeliverSelf
    \/ \E i \in Authorities, approves \in BOOLEAN : DeliverPeer(i, approves)
    \/ Broadcast
    \/ \E x \in SingleWithdrawalEnvelopes :
          run.phase \in {"idle", "done", "aborted"} /\ ApprovePayoutsTest(x)

SpecRun == Init /\ [][NextRun]_vars

paidByRun == paidWithdrawals(run.body)

\* C11: /approvePayoutsTest, whatever the request, leaves the three tables
\* as they are (and a node asked in the test pass records nothing), and a
\* run started in test mode never reaches the approval pass or the
\* broadcast.
TestModeChangesNothing ==
    /\ [][last'.op \in {"approvePayoutsTest", "peerApprovePayoutsTest"} =>
            (store' = store /\ peers' = peers /\ broadcast' = broadcast)]_vars
    /\ [](run.test => (run.sent = 0 /\ run.phase \notin {"execute", "send"}
                          /\ run.asked = <<>>))
    /\ [][broadcast' # broadcast => ~run.test]_vars

\* A test run over a batch that pays a withdrawal has passed every node and
\* is over: the withdrawal is still unapproved everywhere and nothing was
\* broadcast.
TestModeChangesNothingWitness ==
    /\ run.test /\ run.phase = "done"
    /\ last.op = "approvePayoutsTest" /\ last.res = "ok"
    /\ paidByRun # {}
    /\ \A k \in paidByRun : \E w \in withdrawalRows(k[1], k[2]) : isSubmitted(w)
    /\ \A i \in DOMAIN peers : peers[i] = {}
    /\ broadcast = <<>>

\* C19: when a node asked in a payout run refuses or fails, the run is
\* over: nothing is broadcast, the nodes after it are not asked in the
\* approval pass and have approved nothing of the batch, the nodes before it
\* keep what they have approved, and nothing more happens in the run.
RunAbortsOnRefusal ==
    /\ [][(run.inflight # NoMessage /\ run'.inflight = NoMessage /\ last'.res # "ok") =>
            /\ run'.phase = "aborted"
            /\ broadcast' = broadcast
            /\ \A j \in Authorities :
                  j > run.node =>
                     /\ j \notin Range(run'.asked)
                     /\ IF j = Self
                        THEN /\ store' = store
                             /\ \A k \in paidByRun :
                                   \E w \in withdrawalRows(k[1], k[2]) : isSubmitted(w)
                        ELSE peers'[j] = peers[j]
            /\ \A j \in Authorities :
                  (j < run.node /\ run.phase = "execute") =>
                     IF j = Self
                     THEN \A k \in paidByRun :
                             \E w \in withdrawalRows(k[1], k[2]) : ~isSubmitted(w)
                     ELSE paidByRun \subseteq peers'[j]]_vars
    /\ [][(run.phase = "aborted" /\ run'.id = run.id) =>
            (run' = run /\ broadcast' = broadcast /\ peers' = peers /\ store' = store)]_vars

\* In the approval pass the first node has approved and recorded the batch;
\* a reorganisation then made this node refuse, and the run is over without
\* a broadcast.
RunAbortsOnRefusalWitness ==
    /\ run.phase = "aborted" /\ run.node = Self
    /\ last.op = "approvePayouts"
    /\ last.res = "Verification failed: incorrect chain"
    /\ paidByRun # {}
    /\ \A j \in DOMAIN peers : paidByRun \subseteq peers[j]
    /\ \A k \in paidByRun : \E w \in withdrawalRows(k[1], k[2]) : isSubmitted(w)
    /\ broadcast = <<>>

\* C20: a transaction is broadcast only at the end of an approval pass in
\* which every node, in the configured order, was asked and returned a
\* validly signed chain, node i having been sent the chain node i - 1
\* returned; a run broadcasts at most once.
BroadcastAfterAllApprovals ==
    /\ [][broadcast' # broadcast =>
            /\ broadcast' = Append(broadcast, run.approvalChain)
            /\ ~run.test
            /\ run.asked = [i \in 1..NumAuthorities |-> i]
            /\ run.approvalChain # NoApprovalChain
            /\ run.approvalChain.signers = Authorities
            /\ run.sent = 0 /\ run'.sent = 1 /\ run'.id = run.id]_vars
    /\ [](run.sent <= 1)
    /\ [][(last'.op = "post" /\ run.phase = "execute") =>
            LET sentChain == run'.inflight.data.body.approvalChain IN
            IF run.node = 1 THEN sentChain = NoApprovalChain
            ELSE /\ sentChain # NoApprovalChain
                 /\ sentChain.signers = 1..(run.node - 1)]_vars

\* A transaction signed by every node has been broadcast and the withdrawals
\* it pays are approved at every node.
BroadcastAfterAllApprovalsWitness ==
    /\ last.op = "sendRawTransaction"
    /\ Len(broadcast) = 1
    /\ broadcast[1].signers = Authorities
    /\ paidByRun # {}
    /\ \A k \in paidByRun : \E w \in withdrawalRows(k[1], k[2]) : ~isSubmitted(w)
    /\ \A j \in DOMAIN peers : paidByRun \subseteq peers[j]


(***************************************************************************)
(* The tax functions applied to every amount of a range (SpecTax).         *)
(***************************************************************************)
MaxAmount == 320     \* largest amount the tax functions are applied to

EvaluateTax(x) ==
    /\ last.op = "none"
    /\ last' = [op |-> "evaluateTax", caller |-> "none", req |-> <<x>>,
                res |-> [meetsTax |-> meetsTax(x), taxAmount |-> taxAmount(x),
                         amountAfterTax |-> amountAfterTax(x)]]
    /\ UNCHANGED <<peerStores, writers, cache, stats, child, mintHistory, coordinator, store, daemon, keyCounter, published,
                   requests, listening, signedCount>>

NextTax == \E x \in (0 - FLAT_FEE)..MaxAmount : EvaluateTax(x)

SpecTax == Init /\ [][NextTax]_vars

\* C24: for every amount x >= FLAT_FEE, taxAmount(x) is
\* FLAT_FEE + floor((x - FLAT_FEE) / 100) and taxAmount(x) + amountAfterTax(x)
\* is x; for every x < FLAT_FEE both functions fail.
TaxRoundTrip ==
    last.op = "evaluateTax" =>
        LET x == last.req[1]
            t == last.res.taxAmount
            a == last.res.amountAfterTax IN
        IF x >= FLAT_FEE
        THEN /\ t.ok /\ a.ok
             /\ t.val = FLAT_FEE + (x - FLAT_FEE) \div 100
             /\ t.val + a.val = x
        ELSE ~t.ok /\ ~a.ok

\* An amount whose percentage part is cut by the integer division has been
\* split into tax and rest.
TaxRoundTripWitness ==
    /\ last.op = "evaluateTax"
    /\ last.req[1] >= FLAT_FEE
    /\ (last.req[1] - FLAT_FEE) % 100 # 0
    /\ (last.req[1] - FLAT_FEE) \div 100 >= 1
    /\ last.res.taxAmount.ok
    /\ last.res.taxAmount.val + last.res.amountAfterTax.val = last.req[1]


(***************************************************************************)
(* Calls of getBurnHistory in list mode and with an index (SpecCache).     *)
(***************************************************************************)
NextCache ==
    \/ \E a \in BurnAddresses : GetBurnHistoryList(a)
    \/ \E a \in BurnAddresses, t \in IndexTexts : GetBurnHistory(a, t)

SpecCache == Init /\ [][NextCache]_vars

\* C21: every cache entry lies under the key of the burn it describes, and
\* a lookup that hits the cache returns the on-chain destination and amount
\* of burn number burnIndex of burnAddress.
CacheKeyedByBurn ==
    /\ \A key \in DOMAIN cache :
          \E a \in BurnAddresses : \E i \in DOMAIN BurnHistory[a] :
              key = cacheKey(a, ToString(i)) /\ cache[key] = BurnHistory[a][i]
    /\ (last.op = "getBurnHistory" /\ last.res.hit) =>
          /\ indexNumber(last.req[2]) \in DOMAIN BurnHistory[last.req[1]]
          /\ last.res.val = BurnHistory[last.req[1]][indexNumber(last.req[2])]

\* After a call in list mode a lookup with the index text "undefined" has
\* hit the cache and returned the last burn of the address.
CacheHitForNoBurn ==
    /\ last.op = "getBurnHistory"
    /\ last.req[2] = "undefined"
    /\ last.res.hit
    /\ last.res.val = BurnHistory[last.req[1]][Len(BurnHistory[last.req[1]])]


(***************************************************************************)
(* Requests to the endpoints and what they are answered (SpecResponses).   *)
(***************************************************************************)
NextResponses ==
    \/ Ping
    \/ \E i \in Authorities : OperatorRequest(i, EmptyBody)
    \/ \E c \in Calls : Log(c[1], c[2])
    \/ \E c \in Calls : DumpDatabase(c[1], c[2])
    \/ \E c \in Calls : DingoDoesAHarakiri(c[1], c[2])
    \/ \E stale, fails \in BOOLEAN : Stats(stale, fails)
    \/ \E b \in BurnIndexes : SubmitWithdrawal("bA", b)

SpecResponses == Init /\ [][NextResponses]_vars

\* C22: a request whose handler fails is answered with status 500 and the
\* failure is written to the log, on every endpoint.
FailureAnswered500 ==
    (last.op \in AsyncHandled \cup NotAwaited /\ last.res # "ok") =>
        response = [status |-> 500, logged |-> TRUE]

\* /stats has failed while reading and the request has no response.
StatsFailureUnanswered ==
    /\ last.op = "stats" /\ last.res # "ok"
    /\ response.status = NoResponse
    /\ stats = "partial"


(***************************************************************************)
(* Restoring the local database from a dump (SpecRestore).                 *)
(***************************************************************************)
NextRestore ==
    \/ child = NoChild /\ AdvanceTip
    \/ \E k \in BurnKeys : child = NoChild /\ SubmitWithdrawal(k[1], k[2])
    \/ \E sql \in Dumps : SyncDatabase(sql)
    \/ ChildImports

SpecRestore == Init /\ [][NextRestore]_vars

\* C23: when syncDatabase reports completion the local store holds exactly
\* the dumped rows in its three tables, and at no time does the store hold
\* anything but the old content or the complete restored content.
RestoreCompleteAndAtomic ==
    /\ last.op = "syncDatabase" => localStore = last.req[1]
    /\ child # NoChild => localStore \in {child.old, child.sql}

\* syncDatabase has reported completion over a store with a withdrawal, with
\* a dump that has rows, and the store holds no row at all.
RestoreReportedOverEmptyStore ==
    /\ last.op = "syncDatabase"
    /\ child # NoChild
    /\ child.old.wd # {} /\ child.sql.wd # {}
    /\ localStore = EmptyStore


(***************************************************************************)
(* Order of checking, signing and applying in /approvePayouts, over the    *)
(* requests of SpecRpcFailure.                                             *)
(***************************************************************************)
\* The answers of a request whose transaction this node has signed.
PastSigning == {"ok", "RPC failure in createTimedAndSignedMessage"}

tablesChange ==
    mintDepositAddresses' # mintDepositAddresses \/ withdrawals' # withdrawals

\* C26: /approvePayouts signs only when the envelope is the coordinator's,
\* the unspent outputs are the node's own and every withdrawal paid is
\* registered and unapproved, all in the state the request is served in and
\* with no check failing; it applies the payouts only when it has signed;
\* the tables never change for a batch the node did not sign.
SignAfterChecksApplyAfterSign ==
    [][last'.op = "approvePayouts" =>
          /\ (signedCount' # signedCount \/ last'.res \in PastSigning) =>
                /\ last'.res \in PastSigning
                /\ last'.req.env.signer = authorityNodes[payoutCoordinator]
                /\ last'.req.inputs \subseteq Range(computeUnspent)
                /\ \A k \in last'.req.paid :
                      \E w \in withdrawalRows(k[1], k[2]) : isSubmitted(w)
          /\ tablesChange =>
                /\ last'.res \in PastSigning
                /\ \A k \in last'.req.paid : signedCount'[k] = signedCount[k] + 1]_vars

\* A batch paying a withdrawal has been signed and applied.
SignAfterChecksApplyAfterSignWitness ==
    /\ last.op = "approvePayouts" /\ last.res = "ok"
    /\ last.req.paid # {}
    /\ \A k \in last.req.paid :
          /\ signedCount[k] = 1
          /\ \E w \in withdrawalRows(k[1], k[2]) : ~isSubmitted(w)

ShortLists(S) == {<<>>} \cup {<<a>> : a \in S} \cup {<<a, b>> : <<a, b>> \in S \X S}

\* Pairs of a withdrawal payout and its tax payout: those of the burns that
\* can be paid, and one to the first tax payout address with an odd tax.
VoutPairs ==
    {<<withdrawalPayoutFor(k), withdrawalTaxPayoutFor(k)>> : k \in PayKeys}
    \cup {<<[burnAddress |-> "bA", burnIndex |-> 1,
             burnDestination |-> taxPayoutAddresses[1], amount |-> 5038],
            [burnAddress |-> "bA", burnIndex |-> 1,
             burnDestination |-> taxPayoutAddresses[1], amount |-> 61]>>}
VoutDeposits ==
    {[depositAddress |-> changeAddress, amount |-> x] : x \in {0, 25}}
VoutUnspent ==
    {[txid |-> 1, address |-> changeAddress, amount |-> 5099],
     [txid |-> 2, address |-> changeAddress, amount |-> PAYOUT_NETWORK_FEE_PER_TX]}

Reverse(s) == [i \in DOMAIN s |-> s[Len(s) + 1 - i]]

\* computeVouts is applied to the lists as given and to the same lists in
\* the opposite order.
EvaluateVouts(depositTaxPayouts, pairs, unspent) ==
    /\ last.op # "computeVouts"
    /\ LET wp == [i \in DOMAIN pairs |-> pairs[i][1]]
           wtp == [i \in DOMAIN pairs |-> pairs[i][2]] IN
       last' = [op |-> "computeVouts", caller |-> "none",
                req |-> [depositTaxPayouts |-> depositTaxPayouts,
                         withdrawalPayouts |-> wp, withdrawalTaxPayouts |-> wtp,
                         unspent |-> unspent],
                res |-> [before |-> voutsBeforeDust(depositTaxPayouts, wp, wtp, unspent),
                         vouts |-> computeVouts(depositTaxPayouts, wp, wtp, unspent),
                         reordered |-> computeVouts(Reverse(depositTaxPayouts),
                                          Reverse(wp), Reverse(wtp), Reverse(unspent))]]
    /\ UNCHANGED <<peerStores, writers, cache, stats, child, mintHistory, coordinator, store, daemon, keyCounter,
                   published, requests, listening, signedCount>>

NextVouts ==
    \/ \E k \in PayKeys : SubmitWithdrawal(k[1], k[2])
    \/ \E d \in ShortLists(VoutDeposits), ps \in ShortLists(VoutPairs),
          u \in ShortLists(VoutUnspent) : EvaluateVouts(d, ps, u)

SpecVouts == Init /\ [][NextVouts]_vars

RECURSIVE SumValues(_)
SumValues(f) ==
    IF DOMAIN f = {} THEN 0
    ELSE LET a == CHOOSE x \in DOMAIN f : TRUE IN
         f[a] + SumValues([x \in DOMAIN f \ {a} |-> f[x]])

\* The quantities of a batch the rule on funds speaks of.
feeOfBatch(b) ==
    (Len(b.depositTaxPayouts) + Len(b.withdrawalPayouts)) * PAYOUT_NETWORK_FEE_PER_TX
shareOfBatch(b) ==
    (sumAmounts(b.depositTaxPayouts) + sumAmounts(b.withdrawalTaxPayouts) - feeOfBatch(b))
        \div Len(taxPayoutAddresses)
payoutsOfBatch(b) ==
    sumAmounts(b.withdrawalPayouts) + shareOfBatch(b) * Len(taxPayoutAddresses)
withdrawnTo(b, a) ==
    sumAmounts(SelectSeq(b.withdrawalPayouts, LAMBDA p : p.burnDestination = a))

runTransactions ==
    IF run.approvalChain # NoApprovalChain /\ run.approvalChain.signers # {}
    THEN {run.approvalChain} ELSE {}
signedTransactions == Range(broadcast) \cup runTransactions

burnAmountOf(w) == getBurnHistory(w.burnAddress, w.burnIndex).val.burnAmount
burnDestinationOf(w) == getBurnHistory(w.burnAddress, w.burnIndex).val.burnDestination

NextLock ==
    \/ \E x \in DepositAmounts : writers.queue = <<>> /\ Deposit(changeAddress, x)
    \/ \E w \in Writers, job \in WriterJobs : Call(w, job)
    \/ \E w \in Writers : Enter(w)
    \/ \E w \in Writers : Write(w)
    \/ \E w \in Writers : Release(w)

SpecLock == Init /\ [][NextLock]_vars

inCriticalSection(w) == writers.pc[w] \in {"checked", "written"}

StatsServedComplete ==
    (last.op = "stats" /\ last.res = "ok") => stats = "complete"

\* A request inside the ten minutes after a failed recomputation has been
\* answered with the partly filled snapshot.
StatsServedPartial ==
    /\ last.op = "stats" /\ last.res = "ok"
    /\ ~last.req[1]
    /\ response.status = 200
    /\ stats = "partial"


(***************************************************************************)
(* Dry runs of the coordinator, with somebody on the way of its requests   *)
(* who posts what is sent to /approvePayoutsTest to /approvePayouts        *)
(* (SpecDryRun).                                                           *)
(***************************************************************************)
NextDryRun ==
    \/ \E k \in PayKeys : run.id = 0 /\ SubmitWithdrawal(k[1], k[2])
    \/ \E x \in DepositAmounts : run.id = 0 /\ Deposit(changeAddress, x)
    \/ run.id = 0 /\ blocks <= syncDelayThreshold /\ AdvanceTip
    \/ StartRun(TRUE)
    \/ Post
    \/ DeliverSelf
    \/ \E i \in Authorities, approves \in BOOLEAN : DeliverPeer(i, approves)
    \/ run.inflight # NoMessage /\ ApprovePayouts(run.inflight)

SpecDryRun == Init /\ [][NextDryRun]_vars

\* C39: an envelope the coordinator made for a dry run changes nothing on an
\* authority, whoever posts it and wherever: posted to /approvePayouts it is
\* not signed for and not applied.
DryRunEnvelopeHarmless ==
    [][(last'.op = "approvePayouts" /\ run.test) =>
          (store' = store /\ signedCount' = signedCount)]_vars

\* The envelope of a dry run, posted to /approvePayouts while the run was
\* waiting for its answer, has been signed for and applied.
DryRunEnvelopeApplied ==
    /\ run.test /\ run.phase = "test"
    /\ last.op = "approvePayouts" /\ last.res = "ok"
    /\ last.req.paid = paidByRun /\ paidByRun # {}
    /\ \A k \in paidByRun :
          /\ signedCount[k] = 1
          /\ \E w \in withdrawalRows(k[1], k[2]) : ~isSubmitted(w)
    /\ broadcast = <<>>


(***************************************************************************)
(* The deposit part of computePendingPayouts, evaluated in every state of  *)
(* a store whose binding has received nothing, less than the flat fee, or  *)
(* a taxable amount, and whose approved tax is below, at or above the tax. *)
(***************************************************************************)
PendingDepositAmounts == {5, 5099}

EvaluatePending(processDeposits, processWithdrawals) ==
    /\ last.op # "pending"
    /\ last' = [op |-> "pending", caller |-> "self",
                req |-> <<processDeposits, processWithdrawals>>,
                res |-> computePendingPayouts(processDeposits, processWithdrawals)]
    /\ UNCHANGED <<peerStores, writers, cache, stats, child, mintHistory, coordinator, store, daemon,
                   keyCounter, published, requests, listening, signedCount>>

NextPending ==
    \/ \E i \in Authorities : keyCounter[i] = 0 /\ GenerateDepositAddress(i, "m1")
    \/ \E rs \in PositionalResponseLists : RegisterMintDepositAddress(rs)
    \/ \E a \in boundDepositAddresses, x \in PendingDepositAmounts : Deposit(a, x)
    \/ \E x \in DepositTaxEnvelopes : ApprovePayouts(x)
    \/ \E pd, pw \in BOOLEAN : EvaluatePending(pd, pw)

SpecPending == Init /\ [][NextPending]_vars

\* Bindings whose confirmed receipts reach the flat fee.
taxedBindings ==
    {r \in mintDepositAddresses :
        r.depositAddress \in DOMAIN received /\ received[r.depositAddress] >= FLAT_FEE}

taxOfBinding(r) == taxAmount(received[r.depositAddress]).val

\* C31: computePendingPayouts(true, .) fails when some taxed binding has
\* tax(R) < approvedTax; otherwise its depositTaxPayouts holds exactly one
\* entry, of amount tax(R) - approvedTax, for every taxed binding with
\* tax(R) > approvedTax and nothing else; with processDeposits false the
\* list is empty.
PendingDepositTaxExact ==
    last.op = "pending" =>
        LET r == last.res
            over == \E b \in taxedBindings : taxOfBinding(b) < b.approvedTax
            due == {[depositAddress |-> b.depositAddress,
                     amount |-> taxOfBinding(b) - b.approvedTax] :
                       b \in {t \in taxedBindings : taxOfBinding(t) > t.approvedTax}} IN
        IF ~last.req[1]
        THEN r.ok /\ r.val.depositTaxPayouts = <<>>
        ELSE IF over
        THEN ~r.ok /\ r.err = "Deposit approved tax exceeds approvable"
        ELSE /\ r.ok
             /\ Range(r.val.depositTaxPayouts) = due
             /\ Len(r.val.depositTaxPayouts) = Cardinality(due)

\* The computation has emitted the one entry of a binding that owes tax.
PendingDepositTaxOwed ==
    /\ last.op = "pending" /\ last.req[1] /\ last.res.ok
    /\ Len(last.res.val.depositTaxPayouts) = 1
    /\ last.res.val.depositTaxPayouts[1].amount = 60

\* The computation has found the tax of a binding approved in full.
PendingDepositTaxSettled ==
    /\ last.op = "pending" /\ last.req[1] /\ last.res.ok
    /\ last.res.val.depositTaxPayouts = <<>>
    /\ \E b \in taxedBindings : taxOfBinding(b) = b.approvedTax

\* The computation has failed over a binding approved beyond its tax.
PendingDepositTaxOver ==
    /\ last.op = "pending" /\ last.req[1] /\ ~last.res.ok

\* The computation has passed over a binding that received less than the fee.
PendingDepositBelowFee ==
    /\ last.op = "pending" /\ last.req[1] /\ last.res.ok
    /\ last.res.val.depositTaxPayouts = <<>>
    /\ \E b \in mintDepositAddresses :
          b.depositAddress \in DOMAIN received /\ received[b.depositAddress] < FLAT_FEE


(***************************************************************************)
(* A batch computed by computePendingPayouts handed to validatePayouts of  *)
(* the same node in the same state.                                        *)
(***************************************************************************)
ValidatePending(processDeposits, processWithdrawals) ==
    /\ last.op # "validatePending"
    /\ computePendingPayouts(processDeposits, processWithdrawals).ok
    /\ LET p == computePendingPayouts(processDeposits, processWithdrawals).val IN
       last' = [op |-> "validatePending", caller |-> "self",
                req |-> <<processDeposits, processWithdrawals>>,
                res |-> [batch |-> p,
                         verdict |-> validatePayouts(p.depositTaxPayouts,
                                                     p.withdrawalPayouts,
                                                     p.withdrawalTaxPayouts)]]
    /\ UNCHANGED <<peerStores, writers, cache, stats, child, mintHistory, coordinator, store, daemon,
                   keyCounter, published, requests, listening, signedCount>>

\* Batches of at most one deposit tax entry, alone or with withdrawal (bA, 1).
SingleEntryEnvelopes ==
    {createTimedAndSignedMessage(
         payoutBody(d, [i \in DOMAIN ks |-> withdrawalPayoutFor(ks[i])],
                    [i \in DOMAIN ks |-> withdrawalTaxPayoutFor(ks[i])],
                    computeUnspent, NoApprovalChain), payoutCoordinator) :
        <<d, ks>> \in ({<<>>} \cup {<<e>> : e \in DepositTaxEntries})
                        \X {<<>>, <<<<"bA", 1>>>>}}

NextPendingValid ==
    \/ \E i \in Authorities : keyCounter[i] = 0 /\ GenerateDepositAddress(i, "m1")
    \/ \E rs \in PositionalResponseLists : RegisterMintDepositAddress(rs)
    \/ \E a \in boundDepositAddresses, x \in DepositAmounts : Deposit(a, x)
    \/ \E n \in 1..2 : SubmitWithdrawal("bA", n)
    \/ \E x \in SingleEntryEnvelopes : ApprovePayouts(x)
    \/ \E pd, pw \in BOOLEAN : ValidatePending(pd, pw)

SpecPendingValid == Init /\ [][NextPendingValid]_vars

\* C36: a batch returned by computePendingPayouts is accepted by
\* validatePayouts of the same node against the same store and chain,
\* unless its tax does not cover the network fee.
PendingBatchValid ==
    last.op = "validatePending" =>
        last.res.verdict \in {"ok", "Insufficient tax to cover network fees"}

\* A computed batch with a deposit tax entry and a withdrawal was accepted
\* while another withdrawal was already approved or a tax partly approved.
PendingBatchValidWitness ==
    /\ last.op = "validatePending" /\ last.res.verdict = "ok"
    /\ last.res.batch.depositTaxPayouts # <<>>
    /\ last.res.batch.withdrawalPayouts # <<>>
    /\ \E r \in mintDepositAddresses : r.approvedTax > 0

\* A computed batch was rejected because its tax is below the network fee.
PendingBatchBelowFee ==
    /\ last.op = "validatePending"
    /\ last.res.verdict = "Insufficient tax to cover network fees"
    /\ last.res.batch.withdrawalPayouts # <<>>


(***************************************************************************)
(* A node that is handed, for approval, the batch it computes itself.      *)
(***************************************************************************)
NextOwnPending ==
    \/ \E i \in Authorities : keyCounter[i] = 0 /\ GenerateDepositAddress(i, "m1")
    \/ \E rs \in PositionalResponseLists : RegisterMintDepositAddress(rs)
    \/ \E a \in boundDepositAddresses \cup {changeAddress}, x \in DepositAmounts :
          Deposit(a, x)
    \/ \E n \in 1..2 : SubmitWithdrawal("bA", n)
    \/ requests = {} /\ CreatePayoutRequest
    \/ \E x \in requests : ApprovePayouts(x)

SpecOwnPending == Init /\ [][NextOwnPending]_vars

NothingPending ==
    Ok([depositTaxPayouts |-> <<>>, withdrawalPayouts |-> <<>>,
        withdrawalTaxPayouts |-> <<>>])

\* The envelope of the batch this node computes in the present state.
ownPendingEnvelope ==
    LET p == computePendingPayouts(TRUE, TRUE).val IN
    createTimedAndSignedMessage(
        payoutBody(p.depositTaxPayouts, p.withdrawalPayouts, p.withdrawalTaxPayouts,
                   computeUnspent, NoApprovalChain), payoutCoordinator)

\* C37: a step in which /approvePayouts accepts and applies the batch that
\* computePendingPayouts(true, true) of this node returns in the state
\* before leads to a state where computePendingPayouts(true, true) returns
\* three empty lists.
OwnBatchLeavesNothingPending ==
    [][(/\ computePendingPayouts(TRUE, TRUE).ok
        /\ ownPendingEnvelope \in requests
        /\ ApprovePayouts(ownPendingEnvelope)
        /\ last'.res = "ok")
          => (computePendingPayouts(TRUE, TRUE) = NothingPending)']_vars

\* The node has applied a batch with a deposit tax entry and a withdrawal,
\* the withdrawals it holds are approved, and nothing is pending.
OwnBatchLeavesNothingPendingWitness ==
    /\ last.op = "approvePayouts" /\ last.res = "ok"
    /\ last.req.paid # {}
    /\ \E r \in mintDepositAddresses : r.approvedTax > 0
    /\ \A w \in withdrawals : ~isSubmitted(w)
    /\ computePendingPayouts(TRUE, TRUE) = NothingPending


(***************************************************************************)
(* Batches that list a deposit address or a withdrawal twice.              *)
(***************************************************************************)
RepeatedEnvelopes ==
    {createTimedAndSignedMessage(
         payoutBody(d, [i \in DOMAIN ks |-> withdrawalPayoutFor(ks[i])],
                    [i \in DOMAIN ks |-> withdrawalTaxPayoutFor(ks[i])],
                    computeUnspent, NoApprovalChain), payoutCoordinator) :
        <<d, ks>> \in ({<<e, e>> : e \in DepositTaxEntries} \X {<<>>})
                        \cup ({<<>>} \X {<<k, k>> : k \in PayKeys})}

NextRepeats ==
    \/ \E i \in Authorities : keyCounter[i] = 0 /\ GenerateDepositAddress(i, "m1")
    \/ \E rs \in PositionalResponseLists : RegisterMintDepositAddress(rs)
    \/ \E a \in boundDepositAddresses \cup {changeAddress}, x \in DepositAmounts :
          Deposit(a, x)
    \/ \E k \in PayKeys : SubmitWithdrawal(k[1], k[2])
    \/ \E x \in RepeatedEnvelopes : ApprovePayouts(x)

SpecRepeats == Init /\ [][NextRepeats]_vars

\* C34: a batch that lists the same withdrawal (burnAddress, burnIndex) or
\* the same depositAddress twice is rejected by /approvePayouts, so every
\* batch an authority signs names each of them at most once.
RepeatedEntryRejected ==
    last.op = "approvePayouts" => last.res # "ok"

\* A batch listing withdrawal (bA, 1) twice has been validated, signed and
\* applied.
RepeatedWithdrawalSigned ==
    /\ last.op = "approvePayouts" /\ last.res = "ok"
    /\ last.req.paid = {<<"bA", 1>>}
    /\ signedCount[<<"bA", 1>>] = 1
    /\ \E w \in withdrawalRows("bA", 1) : ~isSubmitted(w)


(***************************************************************************)
(* Envelopes of an honest node whose daemon is behind or ahead of the      *)
(* verifier on the same chain.                                             *)
(***************************************************************************)
\* createTimedAndSignedMessage run by authority i while its daemon reports
\* the given tip of the chain.
PeerRequest(i, tip) ==
    /\ tip - syncDelayThreshold \in DOMAIN hashes
    /\ requests' = requests \cup
          {createSignedMessage(
               [body |-> EmptyBody,
                valDingoHeight |-> tip - syncDelayThreshold,
                valDingoHash |-> hashes[tip - syncDelayThreshold]], i)}
    /\ last' = [op |-> "peerRequest", caller |-> "operator", req |-> <<tip>>, res |-> "ok"]
    /\ UNCHANGED <<peerStores, writers, cache, stats, child, mintHistory, coordinator, store, daemon,
                   keyCounter, published, listening, signedCount>>

NextWindow ==
    \/ AdvanceTip
    \/ \E h \in 1..MaxTip : Reorg(h)
    \/ \E i \in Authorities, tip \in syncDelayThreshold..MaxTip :
          requests = {} /\ PeerRequest(i, tip)
    \/ \E x \in requests : Log("operator", x)

SpecWindow == Init /\ [][NextWindow]_vars

\* The envelope carries the hash the verifier's chain has at its height.
onVerifiersChain(e) ==
    e.valDingoHeight \in DOMAIN hashes /\ e.valDingoHash = hashes[e.valDingoHeight]

\* C33: an envelope an authority made at tip T carries height T - s; a
\* verifier on the same chain with tip T' accepts it when
\* T - s <= T' <= T + s and refuses it as expired when T' > T + s.
EnvelopeWindow ==
    (last.op = "log" /\ onVerifiersChain(last.req.env)) =>
        LET T == createdAtTip(last.req.env) IN
        /\ (T - syncDelayThreshold <= blocks /\ blocks <= T + syncDelayThreshold)
              => last.res = "ok"
        /\ blocks > T + syncDelayThreshold => last.res = "Message expired"

\* An envelope was accepted by a verifier syncDelayThreshold blocks ahead of
\* the tip at which it was made.
EnvelopeWindowWitness ==
    /\ last.op = "log" /\ last.res = "ok"
    /\ blocks = createdAtTip(last.req.env) + syncDelayThreshold

\* An envelope was accepted by a verifier behind the tip at which it was made.
EnvelopeAcceptedBehind ==
    /\ last.op = "log" /\ last.res = "ok"
    /\ blocks = createdAtTip(last.req.env) - syncDelayThreshold

\* An envelope was refused as expired one block past the window.
EnvelopeExpiredPastWindow ==
    /\ last.op = "log" /\ last.res = "Message expired"
    /\ blocks = createdAtTip(last.req.env) + syncDelayThreshold + 1


(***************************************************************************)
(* /submitWithdrawal with the burnIndex as the client wrote it.  The value *)
(* goes, as it is, into the query and the insert of the withdrawals table, *)
(* into the cache key and into the contract call.  In this specification   *)
(* the burnIndex of a row is the value the column holds, as text.          *)
(***************************************************************************)
SubmittedIndexes == 1..2
IndexValues == UNION {indexForms(i) : i \in SubmittedIndexes}

\* burnIndex INTEGER NOT NULL: a text of decimal digits is stored, and
\* compared, as the integer it denotes; any other text stays as it is.
columnValue(v) ==
    IF \E i \in BurnIndexes : v \in {ToString(i), "0" \o ToString(i)}
    THEN ToString(CHOOSE i \in BurnIndexes : v \in {ToString(i), "0" \o ToString(i)})
    ELSE v

\* smartContract.getBurnHistory(burnAddress, burnIndex) for such a value.
burnHistoryOfValue(burnAddress, v) ==
    IF cacheKey(burnAddress, v) \in DOMAIN cache
    THEN Ok(cache[cacheKey(burnAddress, v)])
    ELSE getBurnHistory(burnAddress, indexNumber(v))

SubmitWithdrawalValue(burnAddress, v) ==
    /\ listening
    /\ LET w == getWithdrawal(burnAddress, columnValue(v))
           b == burnHistoryOfValue(burnAddress, v)
           r == IF ~w.ok THEN w
                ELSE IF w.val # {} THEN Err("Withdrawal already submitted")
                ELSE IF ~b.ok THEN b
                ELSE IF ~verifyAddress(b.val.burnDestination)
                     THEN Err("Withdrawal address is not a valid Dingo address")
                ELSE IF b.val.burnAmount < FLAT_FEE THEN Err("Amount too little")
                ELSE registerWithdrawal(burnAddress, columnValue(v)) IN
       /\ withdrawals' = IF r.ok THEN r.val ELSE withdrawals
       /\ cache' = IF w.ok /\ w.val = {} /\ b.ok
                   THEN cacheSet(cache, cacheKey(burnAddress, v), b.val) ELSE cache
       /\ published' = IF r.ok
                       THEN published \cup {createTimedAndSignedMessage(EmptyBody, Self)}
                       ELSE published
       /\ last' = [op |-> "submitWithdrawal", caller |-> "public",
                   req |-> <<burnAddress, v>>,
                   res |-> IF r.ok THEN "ok" ELSE r.err]
    /\ UNCHANGED <<peerStores, writers, stats, child, mintHistory, coordinator, usedDepositAddresses,
                   mintDepositAddresses, daemon, keyCounter, requests, listening,
                   signedCount>>

NextBurnIndex ==
    \E a \in BurnAddresses, v \in IndexValues : SubmitWithdrawalValue(a, v)

SpecBurnIndex == Init /\ [][NextBurnIndex]_vars

\* The rows whose burnIndex the contract reads as burn number n of a.
rowsBackedBy(a, n) ==
    {w \in withdrawals : w.burnAddress = a /\ indexNumber(w.burnIndex) = n}

\* C35: every on-chain burn backs at most one withdrawal row, whatever
\* value was submitted as burnIndex.
BurnBacksOneRow ==
    \A a \in BurnAddresses : \A n \in DOMAIN BurnHistory[a] :
        Cardinality(rowsBackedBy(a, n)) <= 1

\* Burn 1 of bA backs two rows: one submitted as 1, one as 0x1.
BurnBacksTwoRows ==
    /\ last.op = "submitWithdrawal" /\ last.res = "ok"
    /\ Cardinality(rowsBackedBy("bA", 1)) = 2

\* A burnIndex written with a leading zero met the row of the same burn.
ZeroPaddedIndexRefused ==
    /\ last.op = "submitWithdrawal" /\ last.req = <<"bA", "01">>
    /\ last.res = "Withdrawal already submitted"


(***************************************************************************)
(* executePayoutsHandler of the command line: the replies of the nodes to  *)
(* /computePendingPayouts and /computeUnspent are cut down to what they    *)
(* have in common.  A reply is what computePendingPayouts makes of the     *)
(* node's rows and of the burn its getBurnHistory returns for each row;    *)
(* a row submitted with the index text "undefined" is answered from the    *)
(* node's cache (key bA|undefined), which holds the last burn of bA at the *)
(* node's latest call in list mode.  burnIndex is the text of the column.  *)
(***************************************************************************)
NoReply == [failed |-> TRUE]

\* The burn that was the last of bA when a node called list mode later on.
LaterBurn == [burnDestination |-> plain("dX"), burnAmount |-> 5098]
CachedLastBurns == {BurnHistory["bA"][1], LaterBurn}

\* The withdrawal rows a node may hold unapproved, in row order.
NodeRows == {<<>>, <<"1">>, <<"undefined">>, <<"1", "undefined">>}

\* What getBurnHistory of a node returns for a row.
burnSeenBy(cached, indexText) ==
    IF indexText = "undefined" THEN cached ELSE BurnHistory["bA"][indexNumber(indexText)]

\* computePendingPayouts, withdrawal part, of a node with these rows.
pendingWithdrawalsOf(rows, cached, processWithdrawals) ==
    LET taxed == IF processWithdrawals
                 THEN SelectSeq(rows, LAMBDA t : meetsTax(burnSeenBy(cached, t).burnAmount))
                 ELSE <<>> IN
    [withdrawalPayouts |->
        [i \in DOMAIN taxed |->
            [burnAddress |-> "bA", burnIndex |-> taxed[i],
             burnDestination |-> burnSeenBy(cached, taxed[i]).burnDestination,
             amount |-> amountAfterTax(burnSeenBy(cached, taxed[i]).burnAmount).val]],
     withdrawalTaxPayouts |->
        [i \in DOMAIN taxed |->
            [burnAddress |-> "bA", burnIndex |-> taxed[i],
             burnDestination |-> burnSeenBy(cached, taxed[i]).burnDestination,
             amount |-> taxAmount(burnSeenBy(cached, taxed[i]).burnAmount).val]]]

\* The deposit entries of a node that sees one or two confirmed deposits of
\* 5099 at the bound address, or none.
NodeDepositTax ==
    {<<>>} \cup {<<[depositAddress |-> "X", amount |-> taxAmount(n * 5099).val]>> : n \in 1..2}

PendingReplies(processDeposits, processWithdrawals) ==
    {NoReply} \cup
    {[depositTaxPayouts |-> IF processDeposits THEN d ELSE <<>>]
        @@ pendingWithdrawalsOf(rows, cached, processWithdrawals) :
        d \in NodeDepositTax, rows \in NodeRows, cached \in CachedLastBurns}

\* listunspent as the nodes see it: an output, the same output with another
\* amount, and a second output.
UnspentReplies ==
    {NoReply,
     [unspent |-> <<>>],
     [unspent |-> <<[txid |-> 1, vout |-> 0, amount |-> 5099]>>],
     [unspent |-> <<[txid |-> 1, vout |-> 0, amount |-> 5000]>>],
     [unspent |-> <<[txid |-> 1, vout |-> 0, amount |-> 5099],
                    [txid |-> 2, vout |-> 0, amount |-> 5099]>>]}

\* depositTaxPayouts.filter((x) => _depositTaxPayouts.some(...))
commonDepositTax(list, reply) ==
    SelectSeq(list, LAMBDA x : \E j \in DOMAIN reply :
        reply[j].depositAddress = x.depositAddress /\ reply[j].amount = x.amount)

\* withdrawalPayouts.filter(...), withdrawalTaxPayouts.filter(...)
commonWithdrawal(list, reply) ==
    SelectSeq(list, LAMBDA x : \E j \in DOMAIN reply :
        /\ reply[j].burnAddress = x.burnAddress
        /\ reply[j].burnIndex = x.burnIndex
        /\ reply[j].burnDestination = x.burnDestination
        /\ reply[j].amount = x.amount)

\* unspent.filter(...): the output is listed once by the reply, with the
\* same amount.
commonUnspent(list, reply) ==
    SelectSeq(list, LAMBDA x :
        LET a == SelectSeq(reply, LAMBDA y : y.txid = x.txid /\ y.vout = x.vout) IN
        Len(a) = 1 /\ a[1].amount = x.amount)

\* The loops over the nodes: the first reply as it is, then cut by each of
\* the others.
RECURSIVE pendingConsensus(_, _)
pendingConsensus(replies, n) ==
    IF n = 1 THEN replies[1]
    ELSE LET c == pendingConsensus(replies, n - 1) IN
         [depositTaxPayouts |-> commonDepositTax(c.depositTaxPayouts,
                                                 replies[n].depositTaxPayouts),
          withdrawalPayouts |-> commonWithdrawal(c.withdrawalPayouts,
                                                 replies[n].withdrawalPayouts),
          withdrawalTaxPayouts |-> commonWithdrawal(c.withdrawalTaxPayouts,
                                                    replies[n].withdrawalTaxPayouts)]

RECURSIVE unspentConsensus(_, _)
unspentConsensus(replies, n) ==
    IF n = 1 THEN replies[1].unspent
    ELSE commonUnspent(unspentConsensus(replies, n - 1), replies[n].unspent)

NoRequest == [sent |-> FALSE]

\* executePayoutsHandler up to the first approval request: a node that does
\* not reply, or whose reply fails validation, ends the command.
executePayoutsBatch(pending, unspent, processDeposits, processWithdrawals) ==
    IF \E i \in Authorities : pending[i] = NoReply \/ unspent[i] = NoReply
    THEN NoRequest
    ELSE LET c == pendingConsensus(pending, NumAuthorities) IN
         [sent |-> TRUE,
          depositTaxPayouts |-> IF processDeposits THEN c.depositTaxPayouts ELSE <<>>,
          withdrawalPayouts |-> IF processWithdrawals THEN c.withdrawalPayouts ELSE <<>>,
          withdrawalTaxPayouts |->
              IF processWithdrawals THEN c.withdrawalTaxPayouts ELSE <<>>,
          unspent |-> unspentConsensus(unspent, NumAuthorities)]

ExecutePayoutsHandler(pending, unspent, processDeposits, processWithdrawals) ==
    /\ last.op = "none"
    /\ last' = [op |-> "executePayouts", caller |-> "coordinator",
                req |-> [pending |-> pending, unspent |-> unspent],
                res |-> executePayoutsBatch(pending, unspent, processDeposits,
                                            processWithdrawals)]
    /\ UNCHANGED <<peerStores, writers, cache, stats, child, mintHistory, coordinator, store, daemon,
                   keyCounter, published, requests, listening, signedCount>>

NextConsensus ==
    \E pd, pw \in BOOLEAN :
        /\ pd \/ pw
        /\ \E pending \in [Authorities -> PendingReplies(pd, pw)],
              unspent \in [Authorities -> UnspentReplies] :
              ExecutePayoutsHandler(pending, unspent, pd, pw)

SpecConsensus == Init /\ [][NextConsensus]_vars

inEveryReply(x, replies, f) == \A i \in Authorities : x \in Range(replies[i][f])

\* C32: the batch holds exactly the payout records that are in every
\* node's pending reply and the outputs that are, with the same amount, in
\* every node's unspent reply; withdrawalPayouts[i] and
\* withdrawalTaxPayouts[i] name the same (burnAddress, burnIndex) for every
\* i; and nothing is sent when a node does not reply.
ConsensusBatch ==
    last.op = "executePayouts" =>
        LET b == last.res
            p == last.req.pending
            u == last.req.unspent IN
        IF \E i \in Authorities : p[i] = NoReply \/ u[i] = NoReply
        THEN b = NoRequest
        ELSE /\ \A f \in {"depositTaxPayouts", "withdrawalPayouts", "withdrawalTaxPayouts"} :
                   Range(b[f]) = {x \in Range(p[1][f]) : inEveryReply(x, p, f)}
             /\ Range(b.unspent) = {x \in Range(u[1].unspent) : inEveryReply(x, u, "unspent")}
             /\ Len(b.withdrawalPayouts) = Len(b.withdrawalTaxPayouts)
             /\ \A i \in DOMAIN b.withdrawalPayouts :
                   /\ b.withdrawalPayouts[i].burnAddress
                         = b.withdrawalTaxPayouts[i].burnAddress
                   /\ b.withdrawalPayouts[i].burnIndex
                         = b.withdrawalTaxPayouts[i].burnIndex

\* The nodes answered with the same tax entry and different payout entries
\* for a withdrawal: the batch has the tax entry without its payout.
ConsensusBatchMisaligned ==
    /\ last.op = "executePayouts" /\ last.res # NoRequest
    /\ Len(last.res.withdrawalPayouts) < Len(last.res.withdrawalTaxPayouts)


(***************************************************************************)
(* The registrar of every authority.  A client asks any node for keys and  *)
(* posts to any node any list of the replies it holds.                     *)
(***************************************************************************)
\* /registerMintDepositAddress on another authority.
RegisterMintDepositAddressAtPeer(i, responses) ==
    /\ i \in DOMAIN peerStores
    /\ LET o == registerMintDepositAddressAt(i, peerStores[i].used, peerStores[i].table,
                                             responses) IN
       /\ peerStores' = [peerStores EXCEPT ![i] = [used |-> o.used, table |-> o.table]]
       /\ published' = IF o.res = "ok" THEN published \cup {o.reply} ELSE published
       /\ last' = [op |-> "registerMintDepositAddress", caller |-> "public",
                   req |-> [pubkeys |-> requestedPubkeys(responses),
                            mintAddress |-> field(responses[1].data.body, "mintAddress"),
                            entries |-> [k \in DOMAIN responses |->
                                            envelopeFacts(responses[k])]],
                   res |-> o.res]
    /\ UNCHANGED <<writers, cache, stats, child, mintHistory, coordinator, store, daemon,
                   keyCounter, requests, listening, signedCount>>

NextBindings ==
    \/ \E i \in Authorities : GenerateDepositAddress(i, "m1")
    \/ \E rs \in PositionalResponseLists : RegisterMintDepositAddress(rs)
    \/ \E i \in Authorities \ {Self}, rs \in PositionalResponseLists :
          RegisterMintDepositAddressAtPeer(i, rs)

SpecBindings == Init /\ [][NextBindings]_vars

\* The bindings of every authority.
bindingsOf(i) == IF i = Self THEN mintDepositAddresses ELSE peerStores[i].table

\* C38: all authorities that hold a binding of a mintAddress hold the same
\* depositAddress for it.
BindingsAgree ==
    \A i, j \in Authorities : \A r \in bindingsOf(i) : \A q \in bindingsOf(j) :
        r.mintAddress = q.mintAddress => r.depositAddress = q.depositAddress

\* Two authorities have accepted registrations of m1 and hold different
\* deposit addresses for it.
BindingsDiffer ==
    /\ last.op = "registerMintDepositAddress" /\ last.res = "ok"
    /\ \E r \in mintDepositAddresses : \E i \in DOMAIN peerStores :
          \E q \in peerStores[i].table :
              r.mintAddress = q.mintAddress /\ r.depositAddress # q.depositAddress

====
